---- MODULE Spec2Model ----
(***************************************************************************)
(* A model of the CRDS selector algebra (lib/selectors.py) and of the      *)
(* best-reference front door (lib/rmap.py).                                *)
(*                                                                         *)
(* Python values are represented as follows.                               *)
(*   - a str is a TLA+ string;                                             *)
(*   - one field of a Match key is a record: Lit(s) for the str s and      *)
(*     Tup(q) for the tuple of strs q;                                     *)
(*   - a Match key is a record: TupleKey(fs) for the tuple of fields fs    *)
(*     and SimpleKey(s) for the plain str s used as a key;                 *)
(*   - a parameter name is a record [star, name]: Par(TRUE, "foo") is the  *)
(*     str "*foo";                                                         *)
(*   - a dict is a TLA+ function, `k in d` is k \in DOMAIN d;              *)
(*   - a header is a dict from names to values;                            *)
(*   - a canonical 'YYYY-MM-DD HH:MM:SS' string is the integer             *)
(*     DateTime(d, t): str comparison of canonical strings is the integer  *)
(*     order;                                                              *)
(*   - the outcome of a call is Return(v) or Raise(e).                     *)
(***************************************************************************)
EXTENDS Integers, Sequences, FiniteSets, TLC

VARIABLES
    selector,     \* the selector object under test
    header,       \* the header of the running / last choose() or query, or NoHeader
    pc,           \* position of the running call
    candidates,   \* MatchingSelector._winnowing_match: sorted_candidates
    remaining,    \* MatchingSelector._winnowing_match: remaining
    idx,          \* index of the next candidate group to be yielded
    tried,        \* single-case groups whose choice was tried, in order
    result,       \* outcome of the last call, or NoResult
    before,       \* what an earlier step saw: the selector and its outcome before
                  \* a case was added, the files as sealed, the first result of
                  \* each query
    refs,         \* InstrumentContext.get_best_references: refs
    files,        \* the mapping files on disk: { path : lines }
    cache,        \* rmap.CACHED_MAPPINGS
    threads,      \* the callers of get_cached_mapping and where each is
    call          \* the arguments of the last call of the loader, or NoCall

vars == <<selector, header, pc, candidates, remaining, idx, tried, result,
          before, refs, files, cache, threads, call>>

(***************************************************************************)
(* Outcomes and the exception hierarchy (selectors.py 98-125).             *)
(***************************************************************************)
Return(v) == [exc |-> "none", value |-> v]
Raise(e) == [exc |-> e, value |-> "none"]
NoResult == [exc |-> "pending", value |-> "none"]
NoHeader == [none |-> "none"]
NoCall == [op |-> "none"]

\* The element of a singleton.  { f(x) : x \in {e} } names the value of e
\* once, where Python binds a local variable.
The(S) == CHOOSE x \in S : TRUE

\* class X(LookupError) for the five selector errors; KeyError and IndexError
\* are the builtin subclasses of LookupError.
LookupError ==
    {"MatchingError", "AmbiguousMatchError", "MissingParameterError",
     "BadValueError", "UseAfterError", "KeyError", "IndexError"}

(***************************************************************************)
(* Keys.                                                                   *)
(***************************************************************************)
Lit(s) == [tuple |-> FALSE, str |-> s]
Tup(q) == [tuple |-> TRUE, elts |-> q]
TupleKey(fs) == [simple |-> FALSE, fields |-> fs]
SimpleKey(s) == [simple |-> TRUE, str |-> s]
Par(star, name) == [star |-> star, name |-> name]

\* s[0] for the strs of the model.
FirstChar(s) ==
    CASE s = "1.0" -> "1"
      [] s = "2.0" -> "2"
      [] s = "3.0" -> "3"
      [] OTHER -> s

\* key[i] as Python evaluates it (i counted from 1 here): the i-th field of
\* a tuple, the i-th character of a str.  Only i = 1 is used on a str.
KeyItem(key, i) ==
    IF key.simple THEN Lit(FirstChar(key.str)) ELSE key.fields[i]

\* The elements of a sequence.
Range(q) == {q[i] : i \in DOMAIN q}

EmptyDict == <<>>

(***************************************************************************)
(* Matcher primitives (selectors.py 344-431).                              *)
(***************************************************************************)
\* The strs that start with ">" or "<", and what the regex of
\* InequalityMatcher.__init__ finds in them: the operator and the float.
\* The float x.0 is the integer x.
inequality_parts ==
    (">1.0" :> [operator |-> ">", value |-> 1])
    @@ (">=2.0" :> [operator |-> ">=", value |-> 2])
    @@ ("<2.0" :> [operator |-> "<", value |-> 2])
    @@ ("<=1.0" :> [operator |-> "<=", value |-> 1])
startswith_inequality(s) == s \in DOMAIN inequality_parts

\* float(value) for the strs of the model: Return(x), or Raise("ValueError")
\* for a str that is no number, such as the "NOT PRESENT" an absent
\* parameter is bound to.
float(value) ==
    CASE value = "1.0" -> Return(1)
      [] value = "2.0" -> Return(2)
      [] value = "3.0" -> Return(3)
      [] OTHER -> Raise("ValueError")

\* matcher(key): the factory.
matcher(key) ==
    IF key.tuple THEN [cls |-> "RegexMatcher", key |-> key]
    ELSE IF key.str = "*" THEN [cls |-> "WildcardMatcher", key |-> key]
    ELSE IF startswith_inequality(key.str)
    THEN [cls |-> "InequalityMatcher", key |-> key,
          operator |-> inequality_parts[key.str].operator,
          value |-> inequality_parts[key.str].value]
    ELSE [cls |-> "Matcher", key |-> key]

\* InequalityMatcher.match raises: float(value) fails.
match_raises(m, value) ==
    m.cls = "InequalityMatcher" /\ float(value).exc # "none"

\* The comparison of InequalityMatcher.match.
compare(operator, m, n) ==
    CASE operator = ">" -> IF m > n THEN 1 ELSE -1
      [] operator = "<" -> IF m < n THEN 1 ELSE -1
      [] operator = ">=" -> IF m >= n THEN 1 ELSE -1
      [] operator = "<=" -> IF m <= n THEN 1 ELSE -1

\* Matcher.match / RegexMatcher.match / WildcardMatcher.match /
\* InequalityMatcher.match (where it does not raise, see match_raises).
\* The regex "^k1$|^k2$|..." of literal alternatives matches exactly the
\* values equal to one alternative (the model's values hold no regex
\* metacharacter that another value could satisfy).
match(m, value) ==
    CASE m.cls = "Matcher" -> IF m.key.str = value THEN 1 ELSE -1
      [] m.cls = "RegexMatcher" ->
            IF \E k \in Range(m.key.elts) : k = value THEN 1 ELSE -1
      [] m.cls = "WildcardMatcher" -> 0
      [] m.cls = "InequalityMatcher" ->
            compare(m.operator, float(value).value, m.value)

(***************************************************************************)
(* MatchingSelector construction (selectors.py 520-598, 699-718).          *)
(***************************************************************************)
\* setup_parameters: strip the "*" prefixes, remember which are required.
setup_parameters(parameters) ==
    [parameters |-> [i \in DOMAIN parameters |-> parameters[i].name],
     required |-> [n \in {parameters[i].name : i \in DOMAIN parameters} |->
                     ~(CHOOSE p \in Range(parameters) : p.name = n).star]]

\* fix_simple_keys: with exactly one parameter, "ACS" becomes ("ACS",).
fix_simple_keys(pars, selections) ==
    IF Len(pars) # 1 THEN selections
    ELSE LET fix(k) == IF k.simple THEN TupleKey(<<Lit(k.str)>>) ELSE k
         IN [nk \in {fix(k) : k \in DOMAIN selections} |->
                selections[CHOOSE k \in DOMAIN selections : fix(k) = nk]]

\* One field of a key after the substitutions of its parkey.
substitute_field(pars, substitutions, i, old_parvalue) ==
    IF /\ pars[i] \in DOMAIN substitutions
       /\ old_parvalue \in DOMAIN substitutions[pars[i]]
    THEN substitutions[pars[i]][old_parvalue]
    ELSE old_parvalue

substitute_key(pars, substitutions, k) ==
    TupleKey([i \in DOMAIN k.fields |->
                 substitute_field(pars, substitutions, i, k.fields[i])])

\* do_substitutions: selections[new_match] = selections.pop(match) for every
\* match with a substituted field.  A rewritten key that lands on a key
\* already present overwrites it.
do_substitutions(pars, selections, substitutions) ==
    LET new(k) == substitute_key(pars, substitutions, k)
        moved(nk) == {k \in DOMAIN selections : new(k) = nk /\ k # nk}
    IN [nk \in {new(k) : k \in DOMAIN selections} |->
           IF moved(nk) # {} THEN selections[CHOOSE k \in moved(nk) : TRUE]
           ELSE selections[nk]]

\* get_matcher_selections: { key : (matchers, choice) }.
get_matcher_selections(mappings) ==
    [keytuple \in DOMAIN mappings |->
        [matchers |-> [i \in DOMAIN keytuple.fields |-> matcher(keytuple.fields[i])],
         choice |-> mappings[keytuple]]]

\* get_value_map: { fitsvar : values of self.keys() in that position }, where
\* self.keys() are the keys of self._selections, the selections as passed to
\* the constructor.
get_value_map(pars, keys) ==
    [fitsvar \in Range(pars) |->
        LET i == CHOOSE j \in DOMAIN pars : pars[j] = fitsvar
            values(key) == IF KeyItem(key, i).tuple
                           THEN Range(KeyItem(key, i).elts)
                           ELSE {KeyItem(key, i).str}
        IN UNION {values(key) : key \in keys}]

\* MatchingSelector.__init__.
MatchingSelector(parameters, selections, rmap_header) ==
    LET setup == setup_parameters(parameters)
        fixed == fix_simple_keys(setup.parameters, selections)
        substitutions == IF "substitutions" \in DOMAIN rmap_header
                         THEN rmap_header["substitutions"] ELSE EmptyDict
        substituted == do_substitutions(setup.parameters, fixed, substitutions)
    IN [cls |-> "MatchingSelector",
        parameters |-> setup.parameters,
        required |-> setup.required,
        selections |-> selections,
        substitutions |-> substitutions,
        match_selections |-> get_matcher_selections(substituted),
        value_map |-> get_value_map(setup.parameters, DOMAIN selections)]

\* A terminal choice: the str `name`.
File(name) == [cls |-> "str", value |-> name]
IsSelector(choice) == choice.cls # "str"

(***************************************************************************)
(* MatchingSelector lookup (selectors.py 603-736).                         *)
(***************************************************************************)
RECURSIVE validate_from(_, _, _)
validate_from(m, hdr, i) ==
    IF i > Len(m.parameters) THEN "none"
    ELSE LET fitsvar == m.parameters[i] IN
         IF fitsvar \in DOMAIN hdr
         THEN IF /\ m.required[fitsvar]
                 /\ hdr[fitsvar] \notin m.value_map[fitsvar]
                 /\ "*" \notin m.value_map[fitsvar]
              THEN "BadValueError"
              ELSE validate_from(m, hdr, i + 1)
         ELSE IF m.required[fitsvar] THEN "MissingParameterError"
              ELSE validate_from(m, hdr, i + 1)

\* Fault variant of validate_query: a missing required parameter goes
\* unnoticed.
RECURSIVE validate_ignoring_missing(_, _, _)
validate_ignoring_missing(m, hdr, i) ==
    IF i > Len(m.parameters) THEN "none"
    ELSE LET fitsvar == m.parameters[i] IN
         IF /\ fitsvar \in DOMAIN hdr
            /\ m.required[fitsvar]
            /\ hdr[fitsvar] \notin m.value_map[fitsvar]
            /\ "*" \notin m.value_map[fitsvar]
         THEN "BadValueError"
         ELSE validate_ignoring_missing(m, hdr, i + 1)
validate_query_ignoring_missing(m, hdr) == validate_ignoring_missing(m, hdr, 1)

\* validate_query: the exception raised, or "none".
validate_query(m, hdr) == validate_from(m, hdr, 1)

RECURSIVE winnow_from(_, _, _, _, _)
winnow_from(m, hdr, i, weights, remain) ==
    IF i > Len(m.parameters)
    THEN [exc |-> "none", weights |-> weights, remaining |-> remain]
    ELSE LET parkey == m.parameters[i]
             value == IF parkey \in DOMAIN hdr THEN hdr[parkey] ELSE "NOT PRESENT"
             match_status(k) == match(remain[k].matchers[i], value)
             winnowed == {k \in DOMAIN remain :
                             match_status(k) = -1 /\ m.required[parkey]}
         IN IF \E k \in DOMAIN remain : match_raises(remain[k].matchers[i], value)
            THEN [exc |-> "ValueError", weights |-> weights, remaining |-> remain]
            ELSE
            winnow_from(m, hdr, i + 1,
               [k \in DOMAIN weights |->
                   IF k \in DOMAIN remain /\ match_status(k) # -1
                   THEN weights[k] - match_status(k) ELSE weights[k]],
               [k \in DOMAIN remain \ winnowed |-> remain[k]])

\* Fault variant of _winnow: the test of self._required is inverted, a
\* mismatch drops the case on an optional parameter and keeps it on a
\* required one.
RECURSIVE winnow_inverted_from(_, _, _, _, _)
winnow_inverted_from(m, hdr, i, weights, remain) ==
    IF i > Len(m.parameters)
    THEN [exc |-> "none", weights |-> weights, remaining |-> remain]
    ELSE LET parkey == m.parameters[i]
             value == IF parkey \in DOMAIN hdr THEN hdr[parkey] ELSE "NOT PRESENT"
             match_status(k) == match(remain[k].matchers[i], value)
             winnowed == {k \in DOMAIN remain :
                             match_status(k) = -1 /\ ~m.required[parkey]}
         IN winnow_inverted_from(m, hdr, i + 1,
               [k \in DOMAIN weights |->
                   IF k \in DOMAIN remain /\ match_status(k) # -1
                   THEN weights[k] - match_status(k) ELSE weights[k]],
               [k \in DOMAIN remain \ winnowed |-> remain[k]])
winnow_inverted(m, hdr, remain) ==
    winnow_inverted_from(m, hdr, 1, [k \in DOMAIN remain |-> 0], remain)

\* Fault variant of _winnow: the weight of every case that is kept changes
\* by minus the match status, a mismatch on an optional parameter included.
RECURSIVE winnow_minus_status_from(_, _, _, _, _)
winnow_minus_status_from(m, hdr, i, weights, remain) ==
    IF i > Len(m.parameters)
    THEN [exc |-> "none", weights |-> weights, remaining |-> remain]
    ELSE LET parkey == m.parameters[i]
             value == IF parkey \in DOMAIN hdr THEN hdr[parkey] ELSE "NOT PRESENT"
             match_status(k) == match(remain[k].matchers[i], value)
             winnowed == {k \in DOMAIN remain :
                             match_status(k) = -1 /\ m.required[parkey]}
         IN winnow_minus_status_from(m, hdr, i + 1,
               [k \in DOMAIN weights |->
                   IF k \in DOMAIN remain \ winnowed
                   THEN weights[k] - match_status(k) ELSE weights[k]],
               [k \in DOMAIN remain \ winnowed |-> remain[k]])
winnow_minus_status(m, hdr, remain) ==
    winnow_minus_status_from(m, hdr, 1, [k \in DOMAIN remain |-> 0], remain)

\* _winnow: (weights, remaining).
winnow(m, hdr, remain) ==
    winnow_from(m, hdr, 1, [k \in DOMAIN remain |-> 0], remain)

RECURSIVE sorted_ints(_)
sorted_ints(W) ==
    IF W = {} THEN <<>>
    ELSE LET lo == CHOOSE w \in W : \A v \in W : w <= v
         IN <<lo>> \o sorted_ints(W \ {lo})

\* Fault variant of _rank_candidates: highest weight first.
rank_candidates_reversed(weights, remain) ==
    LET ws == sorted_ints({weights[k] : k \in DOMAIN remain})
        n == Len(ws)
    IN [i \in DOMAIN ws |->
           [weight |-> ws[n + 1 - i],
            group |-> {k \in DOMAIN remain : weights[k] = ws[n + 1 - i]}]]

\* _rank_candidates: sorted [(weight, group)], lowest weight first.
rank_candidates(weights, remain) ==
    LET ws == sorted_ints({weights[k] : k \in DOMAIN remain})
    IN [i \in DOMAIN ws |->
           [weight |-> ws[i],
            group |-> {k \in DOMAIN remain : weights[k] = ws[i]}]]

(***************************************************************************)
(* VersionRelation and VersionDepSelector (selectors.py 1008-1178).        *)
(*                                                                         *)
(* A Python value that serves as a version is a record: PyInt(n), a tuple  *)
(* of numbers PyTuple(q), or the string PyStr(s).  A relation string is    *)
(* the record RelationStr(op, expr) of the operator RELATION_RE finds and  *)
(* the value its expression evaluates to.                                  *)
(***************************************************************************)
PyInt(n) == [type |-> "int", n |-> n]
PyTuple(q) == [type |-> "tuple", elts |-> q]
PyStr(s) == [type |-> "str", s |-> s]
RelationStr(op, expr) == [op |-> op, expr |-> expr]
Default == [op |-> "default", expr |-> PyStr("")]

Sign(n) == IF n < 0 THEN -1 ELSE IF n > 0 THEN 1 ELSE 0

RECURSIVE cmp_seq(_, _)
\* cmp of two tuples of numbers: lexicographic, a proper prefix is smaller.
cmp_seq(p, q) ==
    IF p = <<>> THEN (IF q = <<>> THEN 0 ELSE -1)
    ELSE IF q = <<>> THEN 1
    ELSE IF p[1] # q[1] THEN Sign(p[1] - q[1])
    ELSE cmp_seq(Tail(p), Tail(q))

\* cmp of the relation operators as strings: '<' < '<=' < '=' < 'default'.
OpRank(op) ==
    CASE op = "<" -> 0 [] op = "<=" -> 1 [] op = "=" -> 2 [] op = "default" -> 3

\* The built-in cmp on version values: numbers and tuples by value; a
\* number is smaller than any non-number; other mixed types by type name,
\* 'str' < 'tuple'.  The only string that occurs as a version is 'default'.
cmp(a, b) ==
    CASE a.type = "int" /\ b.type = "int" -> Sign(a.n - b.n)
      [] a.type = "tuple" /\ b.type = "tuple" -> cmp_seq(a.elts, b.elts)
      [] a.type = "str" /\ b.type = "str" /\ a.s = b.s -> 0
      [] a.type = "int" /\ b.type # "int" -> -1
      [] a.type # "int" /\ b.type = "int" -> 1
      [] a.type = "str" /\ b.type = "tuple" -> -1
      [] a.type = "tuple" /\ b.type = "str" -> 1

\* VersionRelation.__init__: '==' becomes '='; 'default' carries the
\* version 'default'.
VersionRelation(relation_str) ==
    IF relation_str.op = "default"
    THEN [relation |-> "default", version |-> PyStr("default")]
    ELSE [relation |-> IF relation_str.op = "==" THEN "=" ELSE relation_str.op,
          version |-> relation_str.expr]

\* VersionRelation.compatible_types.
compatible_types(self, other) == self.version.type = other.type

\* VersionRelation.__cmp__ with another VersionRelation.
cmp_relations(self, other) ==
    IF self.version = PyStr("default") THEN 1
    ELSE IF self.relation # other.relation /\ self.version = other.version
         THEN Sign(OpRank(self.relation) - OpRank(other.relation))
         ELSE cmp(self.version, other.version)

\* VersionRelation.__cmp__ with a bare version: Return(-1 | 0 | 1) or
\* Raise("ValueError").
cmp_version(self, other) ==
    IF self.version = PyStr("default") THEN Return(1)
    ELSE IF compatible_types(self, other)
         THEN Return(cmp_relations(self, VersionRelation(RelationStr("=", other))))
         ELSE Raise("ValueError")


(***************************************************************************)
(* Selector base class and UseAfterSelector (selectors.py 145-177,         *)
(* 852-880).                                                               *)
(***************************************************************************)
TimesPerDay == 2

\* timestamp.reformat_date(" ".join([date, time])): the canonical datetime
\* of a DATE-OBS and a TIME-OBS, as the integer that orders like the string.
reformat_date(date, time) == date * TimesPerDay + time

RECURSIVE sorted_items(_)
\* sorted(selections.items()): a dict's items, ascending by key.
sorted_items(selections) ==
    IF DOMAIN selections = {} THEN <<>>
    ELSE LET lo == CHOOSE k \in DOMAIN selections :
                       \A j \in DOMAIN selections : k <= j
         IN <<[key |-> lo, choice |-> selections[lo]]>>
            \o sorted_items([k \in DOMAIN selections \ {lo} |-> selections[k]])

\* UseAfterSelector.__init__ -> Selector.__init__.
UseAfterSelector(parameters, datemapping) ==
    [cls |-> "UseAfterSelector",
     parameters |-> parameters,
     selections |-> sorted_items(datemapping)]

UseAfterPars == <<"DATE-OBS", "TIME-OBS">>

\* Fault variant of bsearch_step: the comparisons are strict.
bsearch_step_strict(date, selections) ==
    LET n == Len(selections) IN
    IF n = 0 THEN [recurse |-> FALSE, outcome |-> Raise("UseAfterError")]
    ELSE IF n > 1
    THEN LET left == SubSeq(selections, 1, n \div 2)
             right == SubSeq(selections, (n \div 2) + 1, n)
             compared == right[1].key
         IN IF date > compared THEN [recurse |-> TRUE, selections |-> right]
            ELSE [recurse |-> TRUE, selections |-> left]
    ELSE IF date > selections[1].key
         THEN [recurse |-> FALSE, outcome |-> Return(selections[1])]
         ELSE [recurse |-> FALSE, outcome |-> Raise("UseAfterError")]

\* One level of UseAfterSelector.bsearch: either the half it recurses into,
\* or its outcome, Return(selection) or Raise("UseAfterError").
bsearch_step(date, selections) ==
    LET n == Len(selections) IN
    IF n = 0 THEN [recurse |-> FALSE, outcome |-> Raise("UseAfterError")]
    ELSE IF n > 1
    THEN LET left == SubSeq(selections, 1, n \div 2)
             right == SubSeq(selections, (n \div 2) + 1, n)
             compared == right[1].key
         IN IF date >= compared THEN [recurse |-> TRUE, selections |-> right]
            ELSE [recurse |-> TRUE, selections |-> left]
    ELSE IF date >= selections[1].key
         THEN [recurse |-> FALSE, outcome |-> Return(selections[1])]
         ELSE [recurse |-> FALSE, outcome |-> Raise("UseAfterError")]

RECURSIVE bsearch(_, _)
\* UseAfterSelector.bsearch: Return(selection) or Raise("UseAfterError").
bsearch(date, selections) ==
    LET step == bsearch_step(date, selections)
    IN IF step.recurse THEN bsearch(date, step.selections) ELSE step.outcome

RECURSIVE choose(_, _)

\* Selector.get_choice.
get_choice(selection, hdr) ==
    IF IsSelector(selection.choice) THEN choose(selection.choice, hdr)
    ELSE Return(selection.choice.value)

\* UseAfterSelector.choose; header[x] raises KeyError for an absent x.
UseAfterSelector_choose(u, hdr) ==
    IF \E i \in DOMAIN u.parameters : u.parameters[i] \notin DOMAIN hdr
    THEN Raise("KeyError")
    ELSE LET date == reformat_date(hdr[u.parameters[1]], hdr[u.parameters[2]])
             selection == bsearch(date, u.selections)
         IN IF selection.exc # "none" THEN selection
            ELSE get_choice(selection.value, hdr)

RECURSIVE sorted_relations(_)
\* sorted(selections.items()) of a VersionDepSelector whose keys are
\* pairwise distinct relations with number versions, or 'default': the
\* least item by VersionRelation.__cmp__ first.
sorted_relations(items) ==
    IF items = {} THEN <<>>
    ELSE LET lo == CHOOSE x \in items :
                       \A y \in items \ {x} : cmp_relations(x.key, y.key) < 0
         IN <<lo>> \o sorted_relations(items \ {lo})

\* VersionDepSelector.__init__ with parse_selections; `selections` maps
\* relation strings to choices.
VersionDepSelector(selections) ==
    [cls |-> "VersionDepSelector",
     parameters |-> <<>>,
     selections |-> sorted_relations(
         {[key |-> VersionRelation(r), choice |-> selections[r]] :
             r \in DOMAIN selections})]

versionvar == "sw_version"

\* One evaluation of the while condition of VersionDepSelector.choose,
\* `self._selections[index][0] < version`: the scan continues, or ends with
\* Return(selection), Raise("IndexError") or Raise("ValueError").
versiondep_step(v, version, index) ==
    IF index > Len(v.selections)
    THEN [continue |-> FALSE, outcome |-> Raise("IndexError")]
    ELSE LET c == cmp_version(v.selections[index].key, version)
         IN IF c.exc # "none" THEN [continue |-> FALSE, outcome |-> c]
            ELSE IF c.value < 0 THEN [continue |-> TRUE]
            ELSE [continue |-> FALSE, outcome |-> Return(v.selections[index])]

RECURSIVE versiondep_scan(_, _, _)
versiondep_scan(v, version, index) ==
    LET step == versiondep_step(v, version, index)
    IN IF step.continue THEN versiondep_scan(v, version, index + 1)
       ELSE step.outcome

\* VersionDepSelector.choose.
VersionDepSelector_choose(v, hdr) ==
    IF versionvar \notin DOMAIN hdr THEN Raise("KeyError")
    ELSE LET selection == versiondep_scan(v, hdr[versionvar], 1)
         IN IF selection.exc # "none" THEN selection
            ELSE get_choice(selection.value, hdr)

\* Fault variant of next_candidate: an ambiguous group is skipped like a
\* failed nested lookup.
next_candidate_skipping_ambiguous(cands, remain, hdr, i) ==
    LET group == cands[i].group IN
    IF Cardinality(group) > 1
    THEN [continue |-> TRUE, outcome |-> Raise("AmbiguousMatchError")]
    ELSE LET choice == remain[CHOOSE k \in group : TRUE].choice IN
         IF IsSelector(choice)
         THEN LET r == choose(choice, hdr) IN
              IF r.exc \in LookupError
              THEN [continue |-> TRUE, outcome |-> r]
              ELSE [continue |-> FALSE, outcome |-> r]
         ELSE [continue |-> FALSE, outcome |-> Return(choice.value)]

\* Fault variant of next_candidate: the except clause names the selector
\* errors only, a KeyError or IndexError of the nested selector propagates.
next_candidate_selector_errors(cands, remain, hdr, i) ==
    LET group == cands[i].group IN
    IF Cardinality(group) > 1
    THEN [continue |-> FALSE, outcome |-> Raise("AmbiguousMatchError")]
    ELSE LET choice == remain[CHOOSE k \in group : TRUE].choice IN
         IF IsSelector(choice)
         THEN LET r == choose(choice, hdr) IN
              IF r.exc \in LookupError \ {"KeyError", "IndexError"}
              THEN [continue |-> TRUE, outcome |-> r]
              ELSE [continue |-> FALSE, outcome |-> r]
         ELSE [continue |-> FALSE, outcome |-> Return(choice.value)]

\* One round of the loop of MatchingSelector.choose over the generator
\* _winnowing_match: the generator's step for group i, then the loop body.
\*   [continue |-> TRUE]                the nested selector failed, go on
\*   [continue |-> FALSE, outcome |-> r]  choose() returns or raises r
next_candidate(cands, remain, hdr, i) ==
    LET group == cands[i].group IN
    IF Cardinality(group) > 1
    THEN [continue |-> FALSE, outcome |-> Raise("AmbiguousMatchError")]
    ELSE LET choice == remain[CHOOSE k \in group : TRUE].choice IN
         IF IsSelector(choice)
         THEN LET r == choose(choice, hdr) IN
              IF r.exc \in LookupError
              THEN [continue |-> TRUE, outcome |-> r]
              ELSE [continue |-> FALSE, outcome |-> r]
         ELSE [continue |-> FALSE, outcome |-> Return(choice.value)]

RECURSIVE choose_from(_, _, _, _)
choose_from(cands, remain, hdr, i) ==
    IF i > Len(cands) THEN Raise("MatchingError")
    ELSE LET step == next_candidate(cands, remain, hdr, i) IN
         IF step.continue THEN choose_from(cands, remain, hdr, i + 1)
         ELSE step.outcome

\* MatchingSelector.choose, as one call (used for nested selectors).
MatchingSelector_choose(m, hdr) ==
    LET error == validate_query(m, hdr) IN
    IF error # "none" THEN Raise(error)
    ELSE LET w == winnow(m, hdr, m.match_selections)
         IN IF w.exc # "none" THEN Raise(w.exc)
            ELSE choose_from(rank_candidates(w.weights, w.remaining),
                             w.remaining, hdr, 1)

\* choice.choose(header), dispatched on the class of the selector.
choose(sel, hdr) ==
    CASE sel.cls = "MatchingSelector" -> MatchingSelector_choose(sel, hdr)
      [] sel.cls = "UseAfterSelector" -> UseAfterSelector_choose(sel, hdr)
      [] sel.cls = "VersionDepSelector" -> VersionDepSelector_choose(sel, hdr)

(***************************************************************************)
(* Inputs of the Match specifications.                                     *)
(***************************************************************************)
MaxCases == 3

RECURSIVE join(_, _)
join(q, sep) ==
    IF Len(q) = 0 THEN ""
    ELSE IF Len(q) = 1 THEN q[1]
    ELSE q[1] \o sep \o join(Tail(q), sep)

FieldName(f) == IF f.tuple THEN "(" \o join(f.elts, "|") \o ")" ELSE f.str
KeyName(k) ==
    IF k.simple THEN k.str
    ELSE join([i \in DOMAIN k.fields |-> FieldName(k.fields[i])], ",")

\* The datetime keys of the nested UseAfter selectors and the observation
\* datetime of the headers: Early <= ObsDate < Late.
EarlyKey == reformat_date(0, 1)
LateKey == reformat_date(2, 0)
ObsHeader == [n \in {"DATE-OBS", "TIME-OBS"} |-> IF n = "DATE-OBS" THEN 1 ELSE 0]

\* The choice of the case with key k: a reference file named after the key,
\* or a nested UseAfter selector whose only date is before / after the
\* observation.
ChoiceOf(k, kind) ==
    CASE kind = "file" -> File(KeyName(k) \o ".fits")
      [] kind = "early" ->
            UseAfterSelector(UseAfterPars, EarlyKey :> File(KeyName(k) \o "_early.fits"))
      [] kind = "late" ->
            UseAfterSelector(UseAfterPars, LateKey :> File(KeyName(k) \o "_late.fits"))

\* The dicts { key : choice } with at most MaxCases keys out of `keys`.
SelectionDicts(keys, kinds) ==
    UNION {{[k \in K |-> ChoiceOf(k, g[k])] : g \in [K -> kinds]} :
              K \in {K \in SUBSET keys : Cardinality(K) <= MaxCases}}

Key2(a, b) == TupleKey(<<Lit(a), Lit(b)>>)

FooBar == {<<Par(s1, "foo"), Par(s2, "bar")>> : s1 \in BOOLEAN, s2 \in BOOLEAN}
FooBarKeys == {Key2(a, b) : a \in {"*", "1.0", "2.0"}, b \in {"*", "2.0"}}

\* Two parameters, literal and wildcard fields, terminal and nested choices.
PlainSelectors ==
    {MatchingSelector(p, d, EmptyDict) :
        p \in FooBar, d \in SelectionDicts(FooBarKeys, {"file", "early", "late"})}

\* One parameter, keys written as plain strs, 1-tuples or alternatives.
FooOnly == {<<Par(s1, "foo")>> : s1 \in BOOLEAN}
FooOnlyKeys ==
    {SimpleKey("1.0"), SimpleKey("*"), TupleKey(<<Lit("2.0")>>),
     TupleKey(<<Tup(<<"2.0", "3.0">>)>>)}
SimpleSelectors ==
    {MatchingSelector(p, d, EmptyDict) :
        p \in FooOnly, d \in SelectionDicts(FooOnlyKeys, {"file"})}

\* Two parameters and a header with substitutions for foo.
Substitutions ==
    {"foo" :> (Lit("1.0") :> Lit("3.0")),
     "foo" :> (Lit("1.0") :> Lit("2.0")),
     "foo" :> (Lit("1.0") :> Tup(<<"2.0", "3.0">>))}
SubstitutedKeys ==
    {Key2(a, b) : a \in {"*", "1.0", "2.0"}, b \in {"2.0"}}
    \cup {TupleKey(<<Tup(<<"1.0", "3.0">>), Lit("*")>>)}
SubstitutedSelectors ==
    {MatchingSelector(p, d, [substitutions |-> s]) :
        p \in FooBar, d \in SelectionDicts(SubstitutedKeys, {"file"}),
        s \in Substitutions}

MatchSelectors == PlainSelectors \cup SimpleSelectors \cup SubstitutedSelectors

\* Headers: foo and bar absent or one of three values, with the observation
\* datetime.
MatchHeaders ==
    UNION {[D -> {"1.0", "2.0", "3.0"}] : D \in SUBSET {"foo", "bar"}}
Headers == {h @@ ObsHeader : h \in {h \in MatchHeaders :
                "bar" \in DOMAIN h => h["bar"] # "1.0"}}

(***************************************************************************)
(* MatchingSelector.choose as a process: the call validates, winnows and   *)
(* ranks (choose_begin), then draws candidate groups from the generator    *)
(* one at a time (choose_next).                                            *)
(***************************************************************************)
NoBefore == [none |-> "none"]

InitMatch ==
    /\ selector \in MatchSelectors
    /\ header = NoHeader
    /\ pc = "idle"
    /\ candidates = <<>>
    /\ remaining = EmptyDict
    /\ idx = 0
    /\ tried = <<>>
    /\ result = NoResult
    /\ before = NoBefore
    /\ refs = EmptyDict
    /\ files = EmptyDict
    /\ cache = EmptyDict
    /\ threads = EmptyDict
    /\ call = NoCall

choose_begin ==
    /\ pc = "idle"
    /\ \E hdr \in (IF before = NoBefore THEN Headers ELSE {header}) :
          LET error == validate_query(selector, hdr)
              w == winnow(selector, hdr, selector.match_selections)
          IN /\ header' = hdr
             /\ tried' = <<>>
             /\ IF error # "none" \/ w.exc # "none"
                THEN /\ result' = Raise(IF error # "none" THEN error ELSE w.exc)
                     /\ pc' = "done"
                     /\ candidates' = <<>>
                     /\ remaining' = EmptyDict
                     /\ idx' = 0
                ELSE /\ result' = NoResult
                     /\ pc' = "yield"
                     /\ candidates' = rank_candidates(w.weights, w.remaining)
                     /\ remaining' = w.remaining
                     /\ idx' = 1
    /\ UNCHANGED <<selector, before>>
    /\ UNCHANGED <<refs, files, cache, threads, call>>

choose_next ==
    /\ pc = "yield"
    /\ IF idx > Len(candidates)
       THEN /\ result' = Raise("MatchingError")
            /\ pc' = "done"
            /\ UNCHANGED <<idx, tried>>
       ELSE LET step == next_candidate(candidates, remaining, header, idx)
            IN /\ tried' = Append(tried, [group |-> candidates[idx].group,
                                          outcome |-> step.outcome])
               /\ idx' = idx + 1
               /\ IF step.continue
                  THEN UNCHANGED <<result, pc>>
                  ELSE result' = step.outcome /\ pc' = "done"
    /\ UNCHANGED <<selector, header, candidates, remaining, before>>
    /\ UNCHANGED <<refs, files, cache, threads, call>>

NextMatch == choose_begin \/ choose_next

SpecMatch == InitMatch /\ [][NextMatch]_vars

(***************************************************************************)
(* Vocabulary of the Match properties, stated on the state of a call.      *)
(***************************************************************************)
\* The value a parameter is bound to.
Binding(p) == IF p \in DOMAIN header THEN header[p] ELSE "NOT PRESENT"

\* +1 exact match, 0 wildcard, -1 no match of one key field against a value.
FieldStatus(f, v) ==
    IF f.tuple THEN (IF \E e \in Range(f.elts) : e = v THEN 1 ELSE -1)
    ELSE IF f.str = "*" THEN 0
    ELSE IF f.str = v THEN 1 ELSE -1

Positions == DOMAIN selector.parameters
RequiredAt(i) == selector.required[selector.parameters[i]]
MatchedKeys == DOMAIN selector.match_selections
StatusAt(k, i) == FieldStatus(k.fields[i], Binding(selector.parameters[i]))
Survives(k) == \A i \in Positions : RequiredAt(i) => StatusAt(k, i) # -1
ExactMatches(k) == Cardinality({i \in Positions : StatusAt(k, i) = 1})

\* The call got past validate_query.
Passed ==
    /\ pc \in {"yield", "done"}
    /\ result.exc \notin {"BadValueError", "MissingParameterError"}

\* What trying candidate group i gives, when it holds a single case.
Single(i) == Cardinality(candidates[i].group) = 1
GroupOutcome(i) ==
    LET c == selector.match_selections[CHOOSE k \in candidates[i].group : TRUE].choice
    IN IF IsSelector(c) THEN choose(c, header) ELSE Return(c.value)
Succeeds(i) == Single(i) /\ GroupOutcome(i).exc = "none"
Fails(i) == Single(i) /\ GroupOutcome(i).exc \in LookupError

\* C1: choose visits the surviving weight groups lowest weight first, one
\* after the other; it returns the result of the first single-case group
\* that is a terminal or whose nested lookup succeeds; a nested
\* UseAfterError makes it go on with the next group; it raises
\* MatchingError only when every group was tried and failed.
C1_BestFirst ==
    Passed =>
       /\ \A i, j \in DOMAIN candidates :
             i < j => candidates[i].weight < candidates[j].weight
       /\ UNION {candidates[i].group : i \in DOMAIN candidates}
             = {k \in MatchedKeys : Survives(k)}
       /\ \A i \in DOMAIN tried :
             /\ i \in DOMAIN candidates
             /\ tried[i].group = candidates[i].group
             /\ (i < Len(tried) \/ pc = "yield") => Fails(i)
             /\ tried[i].outcome.exc = "UseAfterError" =>
                   \/ pc = "yield" /\ idx = i + 1
                   \/ Len(tried) > i
                   \/ i = Len(candidates) /\ result = Raise("MatchingError")
       /\ (pc = "done" /\ result.exc = "none") =>
             /\ Len(tried) >= 1
             /\ Succeeds(Len(tried))
             /\ result = GroupOutcome(Len(tried))
       /\ (pc = "done" /\ result.exc = "MatchingError") =>
             /\ Len(tried) = Len(candidates)
             /\ \A i \in DOMAIN candidates : Fails(i)
       /\ (pc = "done" /\ \A i \in DOMAIN candidates : Fails(i)) =>
             result = Raise("MatchingError")

\* C1 witness: the best group's nested UseAfter failed and a weaker group
\* gave the result.
C1_Witness ==
    /\ pc = "done" /\ result.exc = "none"
    /\ Len(tried) >= 2
    /\ tried[1].outcome = Raise("UseAfterError")

\* C3: a group with more than one surviving case, reached as the best group
\* or after every better group failed, makes choose raise
\* AmbiguousMatchError; no result is ever taken from a group behind it.
C3_AmbiguousNeverFallsThrough ==
    (Passed /\ pc = "done") =>
       /\ (\E i \in DOMAIN candidates :
              ~Single(i) /\ \A j \in 1..(i - 1) : Fails(j))
          => result = Raise("AmbiguousMatchError")
       /\ result.exc = "none" => \A i \in 1..Len(tried) : Single(i)
       /\ \A i \in DOMAIN tried : ~Single(i) =>
              i = Len(tried) /\ result = Raise("AmbiguousMatchError")

\* C3 witness: the ambiguous group was reached after a better group's
\* nested lookup failed.
C3_Witness ==
    /\ pc = "done" /\ result = Raise("AmbiguousMatchError")
    /\ Len(tried) >= 2
    /\ tried[1].outcome = Raise("UseAfterError")

\* The selector of the MatchingSelector doctest (selectors.py 452-456).
DoctestSelector ==
    MatchingSelector(<<Par(TRUE, "foo"), Par(FALSE, "bar")>>,
        [k \in {Key2("1.0", "*"), Key2("1.0", "2.0"), Key2("*", "*")} |->
            ChoiceOf(k, "file")],
        EmptyDict)
DoctestHeaders ==
    {[foo |-> "1.0", bar |-> "2.0"] @@ ObsHeader, [bar |-> "2.0"] @@ ObsHeader}

AbsentOptional ==
    {i \in Positions : ~RequiredAt(i) /\ selector.parameters[i] \notin DOMAIN header}

\* C4: with an optional parameter absent from the header no case is dropped
\* because of it (the survivors are the cases without a mismatch on a
\* required parameter), the best group holds the survivors with the most
\* exact matches on the other parameters, and choose returns that case; the
\* doctest selector gives the ('1.0', '2.0') case for both headers.
C4_AbsentOptional ==
    /\ (pc = "done" /\ selector = DoctestSelector /\ header \in DoctestHeaders)
          => result = Return("1.0,2.0.fits")
    /\ (Passed /\ AbsentOptional # {}) =>
          LET others == Positions \ AbsentOptional
              exact(k) == Cardinality({i \in others : StatusAt(k, i) = 1})
              survivors == {k \in MatchedKeys :
                               \A i \in others : RequiredAt(i) => StatusAt(k, i) # -1}
          IN /\ DOMAIN remaining = survivors
             /\ survivors # {} =>
                   candidates[1].group =
                      {k \in survivors : \A j \in survivors : exact(j) <= exact(k)}
             /\ (pc = "done" /\ survivors # {} /\ Succeeds(1)) =>
                   result = GroupOutcome(1)

\* C4 witness: the doctest's header without foo.
C4_Witness ==
    /\ pc = "done" /\ selector = DoctestSelector
    /\ header = [bar |-> "2.0"] @@ ObsHeader
    /\ result.exc = "none"

\* The values the case keys, as written, hold for the parameter at i.
WrittenValues(i) ==
    UNION {LET f == IF k.simple THEN Lit(k.str) ELSE k.fields[i]
           IN IF f.tuple THEN Range(f.elts) ELSE {f.str} :
           k \in DOMAIN selector.selections}

RequiredMissing ==
    {i \in Positions : RequiredAt(i) /\ selector.parameters[i] \notin DOMAIN header}
RequiredPresent ==
    {i \in Positions : RequiredAt(i) /\ selector.parameters[i] \in DOMAIN header}

\* C5: a header that lacks a required parameter, its other required
\* parameters carrying values written in the case keys, gets
\* MissingParameterError before any case is tried; MissingParameterError is
\* never raised for an absent optional parameter.
C5_MissingParameter ==
    pc # "idle" =>
       /\ (/\ RequiredMissing # {}
           /\ \A i \in RequiredPresent :
                 header[selector.parameters[i]] \in WrittenValues(i))
          => /\ pc = "done"
             /\ result = Raise("MissingParameterError")
             /\ tried = <<>>
       /\ result.exc = "MissingParameterError" => RequiredMissing # {}

\* C5 witness: one required parameter carries a written value, the other is
\* missing.
C5_Witness ==
    /\ pc = "done" /\ result = Raise("MissingParameterError")
    /\ RequiredPresent # {} /\ RequiredMissing # {}
    /\ AbsentOptional = {}

\* The values the keys the selector matches against hold at position i.
MatchedValues(i) ==
    UNION {IF k.fields[i].tuple THEN Range(k.fields[i].elts) ELSE {k.fields[i].str} :
           k \in MatchedKeys}

\* C6: (with every required parameter present) choose raises BadValueError
\* exactly when a required parameter's value is not among the values of the
\* keys the selector matches against and no such key has "*" in that field;
\* otherwise the query is winnowed.
C6_BadValueExactly ==
    (pc # "idle" /\ RequiredMissing = {}) =>
       (result.exc = "BadValueError"
          <=> \E i \in RequiredPresent :
                 /\ header[selector.parameters[i]] \notin MatchedValues(i)
                 /\ "*" \notin MatchedValues(i))


(***************************************************************************)
(* UseAfterSelector.choose as a process: the call computes the query       *)
(* datetime (useafter_begin), then bsearch halves the sorted selections    *)
(* once per recursion level (useafter_bsearch).                            *)
(***************************************************************************)
MaxDate == 2
MaxKeys == 4

Dates == 0 .. MaxDate
Times == 0 .. (TimesPerDay - 1)
DateKeys == {reformat_date(d, t) : d \in Dates, t \in Times}

\* The selectors UseAfter(('DATE-OBS','TIME-OBS'), { key : file }) with at
\* most MaxKeys keys, every file named after its key.
UseAfterSelectors ==
    {UseAfterSelector(UseAfterPars,
                      [k \in K |-> File("ref_" \o ToString(k) \o ".fits")]) :
        K \in {K \in SUBSET DateKeys : Cardinality(K) <= MaxKeys}}

\* Headers with an observation date, with or without an observation time.
DateHeaders ==
    {("DATE-OBS" :> d) @@ ("TIME-OBS" :> t) : d \in Dates, t \in Times}
        \cup {("DATE-OBS" :> d) : d \in Dates}

QueryDate(hdr) == reformat_date(hdr["DATE-OBS"], hdr["TIME-OBS"])

InitUseAfter ==
    /\ selector \in UseAfterSelectors
    /\ header = NoHeader
    /\ pc = "idle"
    /\ candidates = <<>>
    /\ remaining = EmptyDict
    /\ idx = 0
    /\ tried = <<>>
    /\ result = NoResult
    /\ before = NoBefore
    /\ refs = EmptyDict
    /\ files = EmptyDict
    /\ cache = EmptyDict
    /\ threads = EmptyDict
    /\ call = NoCall

useafter_begin ==
    /\ pc = "idle"
    /\ \E hdr \in DateHeaders :
          /\ header' = hdr
          /\ IF \E i \in DOMAIN selector.parameters :
                    selector.parameters[i] \notin DOMAIN hdr
             THEN /\ result' = Raise("KeyError")
                  /\ pc' = "done"
                  /\ UNCHANGED candidates
             ELSE /\ result' = NoResult
                  /\ pc' = "bsearch"
                  /\ candidates' = selector.selections
    /\ UNCHANGED <<selector, remaining, idx, tried, before>>
    /\ UNCHANGED <<refs, files, cache, threads, call>>

useafter_bsearch ==
    /\ pc = "bsearch"
    /\ LET step == bsearch_step(QueryDate(header), candidates)
       IN IF step.recurse
          THEN /\ candidates' = step.selections
               /\ idx' = idx + 1
               /\ UNCHANGED <<result, pc>>
          ELSE /\ result' = IF step.outcome.exc # "none" THEN step.outcome
                            ELSE get_choice(step.outcome.value, header)
               /\ pc' = "done"
               /\ UNCHANGED <<candidates, idx>>
    /\ UNCHANGED <<selector, header, remaining, tried, before>>
    /\ UNCHANGED <<refs, files, cache, threads, call>>

NextUseAfter == useafter_begin \/ useafter_bsearch

SpecUseAfter == InitUseAfter /\ [][NextUseAfter]_vars

\* The keys of the selector, and those not after the query datetime.
UseAfterKeys == {selector.selections[i].key : i \in DOMAIN selector.selections}
KeysNotAfter(t) == {k \in UseAfterKeys : k <= t}
SelectionOf(k) ==
    selector.selections[CHOOSE i \in DOMAIN selector.selections :
                            selector.selections[i].key = k]
Greatest(K) == CHOOSE k \in K : \A j \in K : j <= k
Answered ==
    /\ pc = "done"
    /\ selector.cls = "UseAfterSelector"
    /\ DOMAIN header = {"DATE-OBS", "TIME-OBS"}

\* C2: UseAfterSelector.choose returns the selection of the greatest key
\* that is <= the query datetime, an exact hit included, and raises
\* UseAfterError when every key is greater or there are no keys; the
\* recursive bsearch and the stepwise search agree.
C2_UseAfterGreatestKey ==
    Answered =>
        LET t == QueryDate(header)
        IN /\ IF KeysNotAfter(t) = {}
              THEN result = Raise("UseAfterError")
              ELSE result = Return(SelectionOf(Greatest(KeysNotAfter(t))).choice.value)
           /\ result = UseAfterSelector_choose(selector, header)

\* An exact hit on a key that is neither the least nor the greatest of a
\* selector with at least three keys, found after two halvings.
C2_Witness ==
    /\ Answered
    /\ Cardinality(UseAfterKeys) >= 3
    /\ idx >= 2
    /\ QueryDate(header) \in UseAfterKeys
    /\ \E lo, hi \in UseAfterKeys : lo < QueryDate(header) /\ QueryDate(header) < hi
    /\ result = Return(SelectionOf(QueryDate(header)).choice.value)


(***************************************************************************)
(* Comparisons of VersionRelations: three relations are constructed, then  *)
(* two of them, or one of them and a bare version, are compared.           *)
(***************************************************************************)
MaxVersion == 2

\* Versions: the numbers 0 .. MaxVersion and two tuples.
NumericVersions == {PyInt(n) : n \in 0 .. MaxVersion}
TupleVersions == {PyTuple(<<1, 0>>), PyTuple(<<1, 1>>)}
Versions == NumericVersions \cup TupleVersions
Operators == {"<", "<=", "=", "=="}
RelationStrs(versions) ==
    {RelationStr(op, v) : op \in Operators, v \in versions} \cup {Default}

InitRelation ==
    /\ selector = NoHeader
    /\ header = NoHeader
    /\ pc = "idle"
    /\ candidates \in [1 .. 3 -> {VersionRelation(r) : r \in RelationStrs(Versions)}]
    /\ remaining = EmptyDict
    /\ idx = 0
    /\ tried = <<>>
    /\ result = NoResult
    /\ before = NoBefore
    /\ refs = EmptyDict
    /\ files = EmptyDict
    /\ cache = EmptyDict
    /\ threads = EmptyDict
    /\ call = NoCall

\* candidates[i].__cmp__(candidates[j])
compare_relations ==
    /\ pc = "idle"
    /\ \E i, j \in DOMAIN candidates :
          /\ tried' = <<candidates[i], candidates[j]>>
          /\ result' = Return(cmp_relations(candidates[i], candidates[j]))
    /\ pc' = "compared"
    /\ UNCHANGED <<selector, header, candidates, remaining, idx, before>>
    /\ UNCHANGED <<refs, files, cache, threads, call>>

\* candidates[i].__cmp__(version)
compare_version ==
    /\ pc = "idle"
    /\ \E i \in DOMAIN candidates, version \in Versions :
          /\ tried' = <<candidates[i], version>>
          /\ result' = cmp_version(candidates[i], version)
    /\ pc' = "compared_version"
    /\ UNCHANGED <<selector, header, candidates, remaining, idx, before>>
    /\ UNCHANGED <<refs, files, cache, threads, call>>

NextRelation == compare_relations \/ compare_version

SpecRelation == InitRelation /\ [][NextRelation]_vars

IsDefault(r) == r.relation = "default"

\* C8: VersionRelation comparison is a total order on the relations at
\* hand: every relation is equal to itself, the comparison is antisymmetric
\* and transitive, 'default' is greater than every other relation, for
\* number and tuple versions alike, and with equal versions '<' sorts
\* before '='.
C8_TotalOrder ==
    pc = "compared" =>
        /\ \A a \in Range(candidates) : cmp_relations(a, a) = 0
        /\ \A a, b \in Range(candidates) :
              cmp_relations(a, b) = 0 - cmp_relations(b, a)
        /\ \A a, b, c \in Range(candidates) :
              cmp_relations(a, b) <= 0 /\ cmp_relations(b, c) <= 0
                  => cmp_relations(a, c) <= 0
        /\ \A a, b \in Range(candidates) :
              IsDefault(a) /\ ~IsDefault(b) =>
                  cmp_relations(a, b) = 1 /\ cmp_relations(b, a) = -1
        /\ \A a, b \in Range(candidates) :
              a.version = b.version /\ a.relation = "<" /\ b.relation = "="
                  => cmp_relations(a, b) = -1
        /\ result = Return(cmp_relations(tried[1], tried[2]))


(***************************************************************************)
(* VersionDepSelector.choose as a process: the call reads the version      *)
(* (versiondep_begin), then evaluates the while condition once per step    *)
(* (versiondep_next).                                                      *)
(***************************************************************************)
\* The selectors SWVersionDep({ relation : file }) with at most MaxCases
\* relations, no two of which construct the same VersionRelation, over
\* number versions; every file is named after its relation.
RelationName(r) ==
    IF r.op = "default" THEN "default" ELSE r.op \o ToString(r.expr.n)
VersionDepSelectors ==
    {VersionDepSelector([r \in K |-> File(RelationName(r) \o ".fits")]) :
        K \in {K \in SUBSET RelationStrs(NumericVersions) :
                 /\ Cardinality(K) <= MaxCases
                 /\ \A r, q \in K :
                       VersionRelation(r) = VersionRelation(q) => r = q}}

\* Headers: sw_version a number, a tuple, or absent.
VersionHeaders ==
    {(versionvar :> v) : v \in NumericVersions \cup {PyTuple(<<1, 0>>)}}
        \cup {("DATE-OBS" :> 1)}

InitVersionDep ==
    /\ selector \in VersionDepSelectors
    /\ header = NoHeader
    /\ pc = "idle"
    /\ candidates = <<>>
    /\ remaining = EmptyDict
    /\ idx = 0
    /\ tried = <<>>
    /\ result = NoResult
    /\ before = NoBefore
    /\ refs = EmptyDict
    /\ files = EmptyDict
    /\ cache = EmptyDict
    /\ threads = EmptyDict
    /\ call = NoCall

versiondep_begin ==
    /\ pc = "idle"
    /\ \E hdr \in VersionHeaders :
          /\ header' = hdr
          /\ IF versionvar \notin DOMAIN hdr
             THEN result' = Raise("KeyError") /\ pc' = "done" /\ idx' = idx
             ELSE result' = NoResult /\ pc' = "scan" /\ idx' = 1
    /\ UNCHANGED <<selector, candidates, remaining, tried, before>>
    /\ UNCHANGED <<refs, files, cache, threads, call>>

versiondep_next ==
    /\ pc = "scan"
    /\ LET step == versiondep_step(selector, header[versionvar], idx)
       IN IF step.continue
          THEN /\ idx' = idx + 1
               /\ UNCHANGED <<result, pc>>
          ELSE /\ result' = IF step.outcome.exc # "none" THEN step.outcome
                            ELSE get_choice(step.outcome.value, header)
               /\ pc' = "done"
               /\ UNCHANGED idx
    /\ UNCHANGED <<selector, header, candidates, remaining, tried, before>>
    /\ UNCHANGED <<refs, files, cache, threads, call>>

NextVersionDep == versiondep_begin \/ versiondep_next

SpecVersionDep == InitVersionDep /\ [][NextVersionDep]_vars

\* The version v satisfies the relation r: '<' below, '<=' up to and
\* including, '=' only the version itself.
Satisfies(v, r) ==
    CASE r.relation = "<" -> v.n < r.version.n
      [] r.relation = "<=" -> v.n <= r.version.n
      [] r.relation = "=" -> v.n = r.version.n
      [] r.relation = "default" -> FALSE

\* C7: for a number version, VersionDepSelector.choose returns the
\* selection of the first relation in sorted order that the version
\* satisfies, and the 'default' selection when no other relation is
\* satisfied.
C7_FirstSatisfied ==
    (/\ pc = "done"
     /\ selector.cls = "VersionDepSelector"
     /\ versionvar \in DOMAIN header
     /\ header[versionvar].type = "int")
    => LET version == header[versionvar]
           sat == {i \in DOMAIN selector.selections :
                       Satisfies(version, selector.selections[i].key)}
           defaults == {i \in DOMAIN selector.selections :
                           IsDefault(selector.selections[i].key)}
       IN /\ sat # {} =>
                result = Return(selector.selections[
                    CHOOSE i \in sat : \A j \in sat : i <= j].choice.value)
          /\ sat = {} /\ defaults # {} =>
                result = Return(selector.selections[
                    CHOOSE i \in defaults : TRUE].choice.value)


(***************************************************************************)
(* A Match selector queried, rebuilt with one more case, and queried again *)
(* with the same header.                                                   *)
(***************************************************************************)
\* Two parameters, at most MaxCases - 1 cases, terminal and nested choices.
GrowingSelectors ==
    {MatchingSelector(p, d, EmptyDict) :
        p \in FooBar,
        d \in {d \in SelectionDicts(FooBarKeys, {"file", "late"}) :
                  Cardinality(DOMAIN d) < MaxCases}}

\* The constructor arguments a selector was built from.
ParametersOf(m) ==
    [i \in DOMAIN m.parameters |->
        Par(~m.required[m.parameters[i]], m.parameters[i])]
RmapHeaderOf(m) ==
    IF m.substitutions = EmptyDict THEN EmptyDict
    ELSE [substitutions |-> m.substitutions]

InitGrowing ==
    /\ selector \in GrowingSelectors
    /\ header = NoHeader
    /\ pc = "idle"
    /\ candidates = <<>>
    /\ remaining = EmptyDict
    /\ idx = 0
    /\ tried = <<>>
    /\ result = NoResult
    /\ before = NoBefore
    /\ refs = EmptyDict
    /\ files = EmptyDict
    /\ cache = EmptyDict
    /\ threads = EmptyDict
    /\ call = NoCall

\* MatchingSelector(parameters, selections + { key : choice }, rmap_header)
\* for a key that is not among the selections; `before` keeps the first
\* selector and what its choose gave.
add_case ==
    /\ pc = "done"
    /\ before = NoBefore
    /\ \E key \in FooBarKeys \ DOMAIN selector.selections,
          kind \in {"file", "late"} :
          /\ selector' = MatchingSelector(
                 ParametersOf(selector),
                 (key :> ChoiceOf(key, kind)) @@ selector.selections,
                 RmapHeaderOf(selector))
          /\ before' = [selector |-> selector, result |-> result,
                        candidates |-> candidates, added |-> key]
    /\ pc' = "idle"
    /\ candidates' = <<>>
    /\ remaining' = EmptyDict
    /\ idx' = 0
    /\ tried' = <<>>
    /\ result' = NoResult
    /\ UNCHANGED header
    /\ UNCHANGED <<refs, files, cache, threads, call>>

NextGrowing == choose_begin \/ choose_next \/ add_case

SpecGrowing == InitGrowing /\ [][NextGrowing]_vars

\* The added key as the selector matches it, and its number of '*' fields.
AddedKey ==
    substitute_key(selector.parameters, selector.substitutions, before.added)
Stars(k) == Cardinality({i \in DOMAIN k.fields : k.fields[i] = Lit("*")})

\* The first selector had a best match for the header: its best weight
\* group held a single case.
BestBefore == CHOOSE k \in before.candidates[1].group : TRUE
HadBestMatch ==
    /\ before # NoBefore
    /\ before.candidates # <<>>
    /\ Cardinality(before.candidates[1].group) = 1

\* Both calls are over, and the added key is strictly more specific than
\* the best match of the first.
AddedMoreSpecific ==
    /\ pc = "done"
    /\ HadBestMatch
    /\ Stars(AddedKey) < Stars(BestBefore)

\* The header satisfies every exact (non-'*') field of the added key.
SatisfiesAdded ==
    \A i \in Positions :
        AddedKey.fields[i] # Lit("*") => StatusAt(AddedKey, i) = 1

\* The header fails a field of the added key on a required parameter.
FailsAddedOnRequired ==
    \E i \in Positions : RequiredAt(i) /\ StatusAt(AddedKey, i) = -1

\* C9 as stated: after adding a case with a strictly more specific key
\* than the best match, a header that does not satisfy the new key's exact
\* constraints gets the same result as before, optional parameters or not.
C9_Monotone ==
    AddedMoreSpecific /\ ~SatisfiesAdded => result = before.result

\* C9 amended: after adding a case with a strictly more specific key than
\* the best match, a header that fails one of the new key's fields on a
\* required parameter gets the same result as before.
C9_MonotoneOnRequired ==
    AddedMoreSpecific /\ FailsAddedOnRequired => result = before.result

\* A selector with an optional parameter returned the file of its best
\* match, and returns it again after a more specific case that the header
\* fails on the required parameter was added.
C9_Witness ==
    /\ AddedMoreSpecific
    /\ FailsAddedOnRequired
    /\ \E i \in Positions : ~RequiredAt(i) /\ StatusAt(AddedKey, i) = -1
    /\ result.exc = "none"
    /\ result = before.result


(***************************************************************************)
(* Pipeline, instrument and reference mappings (rmap.py 456-670).          *)
(*                                                                         *)
(* A loaded mapping is a record; `selections` maps the lower-case name of  *)
(* an instrument / reftype to the nested mapping.  The message of an       *)
(* exception, str(exc), is represented by the name of its class.           *)
(***************************************************************************)
\* str.lower() on the names that occur.
lower(s) ==
    CASE s = "ACS" -> "acs"
      [] s = "Acs" -> "acs"
      [] s = "COS" -> "cos"
      [] s = "BIASFILE" -> "biasfile"
      [] s = "DARKFILE" -> "darkfile"
      [] s = "FLATFILE" -> "flatfile"
      [] s = "HST" -> "hst"
      [] s = "INSTRUMENT" -> "instrument"
      [] OTHER -> s

\* ReferenceMapping: the selector tree of one reftype.
ReferenceMapping(selector_root) ==
    [cls |-> "ReferenceMapping", selector |-> selector_root]

\* InstrumentContext.__init__; `rmaps` maps the reftypes as written in the
\* .imap to their loaded reference mappings.
InstrumentContext(rmaps) ==
    [cls |-> "InstrumentContext",
     selections |-> [reftype \in {lower(r) : r \in DOMAIN rmaps} |->
                        rmaps[CHOOSE r \in DOMAIN rmaps : lower(r) = reftype]]]

\* PipelineContext.__init__; `imaps` maps the instruments as written in the
\* .pmap to their loaded instrument contexts.
PipelineContext(imaps) ==
    [cls |-> "PipelineContext",
     selections |-> [instrument \in {lower(n) : n \in DOMAIN imaps} |->
                        imaps[CHOOSE n \in DOMAIN imaps : lower(n) = instrument]]]

\* ReferenceMapping.get_best_ref.
ReferenceMapping_get_best_ref(refmap, hdr) == choose(refmap.selector, hdr)

\* InstrumentContext.get_best_ref.
InstrumentContext_get_best_ref(ictx, reftype, hdr) ==
    IF lower(reftype) \notin DOMAIN ictx.selections THEN Raise("KeyError")
    ELSE ReferenceMapping_get_best_ref(ictx.selections[lower(reftype)], hdr)

\* Fault variant of record_best_ref: a reftype whose lookup raises gets no
\* entry.
record_best_ref_or_skip(ictx, reftype, hdr, refs_so_far) ==
    LET best == InstrumentContext_get_best_ref(ictx, reftype, hdr)
    IN IF best.exc = "none" THEN (reftype :> best.value) @@ refs_so_far
       ELSE refs_so_far

\* The body of the loop of InstrumentContext.get_best_references:
\* try: refs[reftype] = get_best_ref(...) except Exception, exc: ...
record_best_ref(ictx, reftype, hdr, refs_so_far) ==
    LET best == InstrumentContext_get_best_ref(ictx, reftype, hdr)
    IN IF best.exc = "none" THEN (reftype :> best.value) @@ refs_so_far
       ELSE (reftype :> ("NOT FOUND " \o best.exc)) @@ refs_so_far

\* The orders in which `for reftype in self.selections` can visit the keys.
Orders(S) == {q \in [1 .. Cardinality(S) -> S] : Range(q) = S}

\* PipelineContext.get_best_references up to the dispatch: the instrument
\* context, or Raise("KeyError").
dispatch(ctx, hdr) ==
    IF "INSTRUME" \notin DOMAIN hdr THEN Raise("KeyError")
    ELSE IF lower(hdr["INSTRUME"]) \notin DOMAIN ctx.selections
         THEN Raise("KeyError")
         ELSE Return(ctx.selections[lower(hdr["INSTRUME"])])


(***************************************************************************)
(* get_best_references as a process: the pipeline context dispatches on    *)
(* INSTRUME (best_refs_begin), then the instrument context looks up one    *)
(* reftype per step and returns refs after the last (best_refs_next).      *)
(***************************************************************************)
MaxReftypes == 2

\* Selector trees of reference mappings: a Match on a required foo, a
\* UseAfter, a Match whose only case holds a UseAfter that is too late, and
\* a Match that accepts every header.
RefSelectors ==
    {MatchingSelector(<<Par(FALSE, "foo")>>,
                      TupleKey(<<Lit("1.0")>>) :> File("foo_1.0.fits"), EmptyDict),
     UseAfterSelector(UseAfterPars, EarlyKey :> File("early.fits")),
     MatchingSelector(<<Par(TRUE, "foo")>>,
                      TupleKey(<<Lit("*")>>) :> ChoiceOf(TupleKey(<<Lit("*")>>), "late"),
                      EmptyDict),
     MatchingSelector(<<Par(TRUE, "foo")>>,
                      TupleKey(<<Lit("*")>>) :> File("any.fits"), EmptyDict)}

Reftypes == {"BIASFILE", "darkfile", "flatfile"}
InstrumentContexts ==
    UNION {{InstrumentContext([r \in R |-> ReferenceMapping(g[r])]) :
                g \in [R -> RefSelectors]} :
              R \in {R \in SUBSET Reftypes : Cardinality(R) <= MaxReftypes}}

\* Pipelines with ACS, with or without COS.
CosContext ==
    InstrumentContext("darkfile" :> ReferenceMapping(
        UseAfterSelector(UseAfterPars, EarlyKey :> File("cos_dark.fits"))))
PipelineContexts ==
    {PipelineContext("ACS" :> ictx) : ictx \in InstrumentContexts}
        \cup {PipelineContext(("ACS" :> ictx) @@ ("COS" :> CosContext)) :
                 ictx \in InstrumentContexts}

\* Headers: INSTRUME in some case, of the pipeline or not, or absent; foo
\* declared, undeclared or absent; the observation datetime or none.
BestRefsHeaders ==
    {i @@ f @@ d :
        i \in {("INSTRUME" :> n) : n \in {"ACS", "acs", "Acs", "COS", "wfc3"}}
                 \cup {<<>>},
        f \in {("foo" :> v) : v \in {"1.0", "3.0"}} \cup {<<>>},
        d \in {ObsHeader, <<>>}}

InitBestRefs ==
    /\ selector \in PipelineContexts
    /\ header = NoHeader
    /\ pc = "idle"
    /\ candidates = <<>>
    /\ remaining = EmptyDict
    /\ idx = 0
    /\ tried = <<>>
    /\ result = NoResult
    /\ before = NoBefore
    /\ refs = EmptyDict
    /\ files = EmptyDict
    /\ cache = EmptyDict
    /\ threads = EmptyDict
    /\ call = NoCall

best_refs_begin ==
    /\ pc = "idle"
    /\ \E hdr \in BestRefsHeaders :
          /\ header' = hdr
          /\ IF dispatch(selector, hdr).exc # "none"
             THEN /\ result' = dispatch(selector, hdr)
                  /\ pc' = "done"
                  /\ UNCHANGED <<candidates, idx>>
             ELSE /\ result' = NoResult
                  /\ pc' = "reftypes"
                  /\ candidates' \in Orders(DOMAIN dispatch(selector, hdr).value.selections)
                  /\ idx' = 1
    /\ refs' = EmptyDict
    /\ UNCHANGED <<selector, remaining, tried, before>>
    /\ UNCHANGED <<files, cache, threads, call>>

best_refs_next ==
    /\ pc = "reftypes"
    /\ IF idx > Len(candidates)
       THEN /\ result' = Return(refs)
            /\ pc' = "done"
            /\ UNCHANGED <<idx, refs>>
       ELSE /\ refs' = record_best_ref(dispatch(selector, header).value,
                                       candidates[idx], header, refs)
            /\ idx' = idx + 1
            /\ UNCHANGED <<result, pc>>
    /\ UNCHANGED <<selector, header, candidates, remaining, tried, before>>
    /\ UNCHANGED <<files, cache, threads, call>>

NextBestRefs == best_refs_begin \/ best_refs_next

SpecBestRefs == InitBestRefs /\ [][NextBestRefs]_vars

\* The header names an instrument of the pipeline, the instrument context
\* it names, and what the lookup of one of its reftypes gives on its own.
NamesInstrument ==
    /\ selector.cls = "PipelineContext"
    /\ header # NoHeader
    /\ "INSTRUME" \in DOMAIN header
    /\ lower(header["INSTRUME"]) \in DOMAIN selector.selections
Named == selector.selections[lower(header["INSTRUME"])]
Lookup(reftype) == choose(Named.selections[reftype].selector, header)
Entry(reftype) ==
    IF Lookup(reftype).exc = "none" THEN Lookup(reftype).value
    ELSE "NOT FOUND " \o Lookup(reftype).exc

\* C10: for a header whose INSTRUME, case-folded, names an instrument of
\* the pipeline, get_best_references returns a map with exactly one entry
\* per reftype of that instrument; the entry of a reftype whose lookup
\* raises is 'NOT FOUND <message>', and every other entry is the result of
\* that reftype's lookup, whatever the other lookups did and in whatever
\* order the reftypes were visited.
C10_OneEntryPerReftype ==
    NamesInstrument =>
        /\ pc = "reftypes" =>
              /\ DOMAIN refs = {candidates[i] : i \in 1 .. (idx - 1)}
              /\ \A reftype \in DOMAIN refs : refs[reftype] = Entry(reftype)
        /\ pc = "done" =>
              /\ result.exc = "none"
              /\ DOMAIN result.value = DOMAIN Named.selections
              /\ \A reftype \in DOMAIN result.value :
                    result.value[reftype] = Entry(reftype)

\* A header with INSTRUME in another case than the pipeline's got one
\* entry for a reftype whose lookup raised, visited first, and the file of
\* a reftype whose lookup succeeded.
C10_Witness ==
    /\ NamesInstrument
    /\ pc = "done"
    /\ header["INSTRUME"] = "Acs"
    /\ Cardinality(DOMAIN result.value) = 2
    /\ Lookup(candidates[1]).exc # "none"
    /\ Lookup(candidates[2]).exc = "none"
    /\ result.value[candidates[2]] = Lookup(candidates[2]).value


(***************************************************************************)
(* Mapping files and the MappingValidator (rmap.py 118-184).               *)
(*                                                                         *)
(* The text of a mapping file is a sequence of lines.  A line is           *)
(*   Assign(target, value)   `header = {`, `selector = Match({`, or a      *)
(*                           whole assignment `selector = lambda: 0`;      *)
(*   Item(key, expr, note)   one `'key' : expr,  # note` of the dict       *)
(*                           opened by the nearest Assign above;           *)
(*   Case(key, expr, note)   the same with a match tuple as the key;       *)
(*   Stmt(node)              another top-level statement, of ast class     *)
(*                           `node`;                                       *)
(*   Comment(text)           `# text`;                                     *)
(*   Garbage                 text that does not parse.                     *)
(* Expressions are ast nodes: Str, Tuple, Call and nodes named by their    *)
(* ast class only; Parkey is the tuple ((name, ...),) of a reference       *)
(* mapping's parkey, with the parameters of its first and only level.      *)
(* The interpreter is Python 2.7, where the validator runs.                *)
(***************************************************************************)
Name(id) == [node |-> "Name", id |-> id]
Node(class) == [node |-> class]
StrNode(s) == [node |-> "Str", s |-> s]
TupleNode(q) == [node |-> "Tuple", elts |-> q]
ParkeyNode(pars) == [node |-> "Parkey", pars |-> pars]
CallNode(func) == [node |-> "Call", func |-> func]
DictNode == Node("Dict")

Assign(target, value) == [kind |-> "assign", target |-> target, value |-> value]
Item(key, expr, note) == [kind |-> "item", key |-> key, expr |-> expr, note |-> note]
Case(key, expr, note) == [kind |-> "case", match |-> key, expr |-> expr, note |-> note]
Stmt(node) == [kind |-> "stmt", node |-> node]
Comment(text) == [kind |-> "comment", text |-> text]
Garbage == [kind |-> "garbage"]

SELECTORS == {"Match", "UseAfter"}

illegal_nodes ==
    {"FunctionDef", "ClassDef", "Return", "Delete", "AugAssign", "Print",
     "For", "While", "If", "With", "Raise", "TryExcept", "TryFinally",
     "Assert", "Import", "ImportFrom", "Exec", "Global", "Pass",
     "Repr", "Yield", "Lambda", "Attribute", "Subscript"}

\* The items of the dict that the assignment on line i opens: the Item
\* lines up to the next assignment or statement.
RECURSIVE items_from(_, _)
items_from(lines, i) ==
    IF i > Len(lines) \/ lines[i].kind \in {"assign", "stmt"} THEN <<>>
    ELSE IF lines[i].kind \in {"item", "case"}
    THEN <<lines[i]>> \o items_from(lines, i + 1)
    ELSE items_from(lines, i + 1)

\* ast.parse(text).body: the top-level statements, or Raise("SyntaxError").
RECURSIVE body_from(_, _)
body_from(lines, i) ==
    IF i > Len(lines) THEN <<>>
    ELSE IF lines[i].kind = "assign"
    THEN <<[node |-> "Assign", target |-> lines[i].target,
            value |-> lines[i].value, items |-> items_from(lines, i + 1)]>>
         \o body_from(lines, i + 1)
    ELSE IF lines[i].kind = "stmt"
    THEN <<Node(lines[i].node)>> \o body_from(lines, i + 1)
    ELSE body_from(lines, i + 1)
parse(lines) ==
    IF \E i \in DOMAIN lines : lines[i].kind = "garbage"
    THEN Raise("SyntaxError")
    ELSE Return(body_from(lines, 1))

\* The first exception among the outcomes q ("none" where there is none).
RECURSIVE first_exception(_)
first_exception(q) ==
    IF q = <<>> THEN "none"
    ELSE IF Head(q) # "none" THEN Head(q)
    ELSE first_exception(Tail(q))

\* NodeVisitor.visit of an expression: getattr(self, 'visit_' + class)
\* goes through MappingValidator.__getattr__, which for an illegal node
\* evaluates the unbound name `visit_Illegal`: NameError.  visit_Call
\* reads node.func.id, which an Attribute does not have.  Every other
\* node gets generic_visit.
visit_expr(expr) ==
    IF expr.node \in illegal_nodes THEN "NameError"
    ELSE IF expr.node = "Call"
    THEN IF expr.func.node # "Name" THEN "AttributeError"
         ELSE IF expr.func.id \notin SELECTORS THEN "FormatError"
         ELSE "none"
    ELSE "none"

\* visit_Assign, then generic_visit of the value and the items' values.
visit_Assign(stmt) ==
    IF stmt.target.node # "Name" THEN "FormatError"
    ELSE IF stmt.target.id \notin {"header", "selector"} THEN "FormatError"
    ELSE IF stmt.value.node \notin {"Call", "Dict"} THEN "FormatError"
    ELSE first_exception(
             <<visit_expr(stmt.value)>>
             \o [i \in DOMAIN stmt.items |-> visit_expr(stmt.items[i].expr)])

visit_stmt(stmt) ==
    IF stmt.node = "Assign" THEN visit_Assign(stmt)
    ELSE IF stmt.node \in illegal_nodes THEN "NameError"
    ELSE "none"

\* visit_Module.
visit_Module(stmts) ==
    IF Len(stmts) # 2 THEN "FormatError"
    ELSE first_exception([i \in DOMAIN stmts |-> visit_stmt(stmts[i])])

\* MappingValidator.compile_and_check on the text `lines`: "none" when the
\* text compiles and passes, else the exception.
compile_and_check(lines) ==
    The({IF parsed.exc # "none" THEN parsed.exc ELSE visit_Module(parsed.value) :
            parsed \in {parse(lines)}})


(***************************************************************************)
(* Mapping._interpret and Parameters.instantiate (rmap.py 229-257,         *)
(* selectors.py 1258-1296).                                                *)
(***************************************************************************)
PyDict(d) == [type |-> "dict", items |-> d]
PyList == [type |-> "list"]

\* The value an expression evaluates to.  A call of a registered selector
\* constructor gives a Parameters object, completed with its selections by
\* eval_assign.
eval(expr) ==
    CASE expr.node = "Str" -> PyStr(expr.s)
      [] expr.node = "Tuple" -> PyTuple(expr.elts)
      [] expr.node = "Parkey" -> PyTuple(<<expr.pars>>)
      [] OTHER -> PyList

\* A dict display: a later item overwrites an earlier one with its key.
item_key(line) == IF line.kind = "case" THEN line.match ELSE line.key
dict_from(items) ==
    [k \in {item_key(items[i]) : i \in DOMAIN items} |->
        LET last == CHOOSE i \in DOMAIN items :
                        /\ item_key(items[i]) = k
                        /\ \A j \in DOMAIN items : item_key(items[j]) = k => j <= i
        IN eval(items[last].expr)]

\* The value an assignment binds: a dict, or the Parameters object
\* SELECTORS[func](dict).
eval_assign(stmt) ==
    IF stmt.value.node = "Dict" THEN PyDict(dict_from(stmt.items))
    ELSE [type |-> "Parameters", func |-> stmt.value.func.id,
          selections |-> dict_from(stmt.items)]

\* `exec code in namespace`: the bindings of the names assigned, the last
\* assignment to a name winning.
namespace(stmts) ==
    LET assigns == {i \in DOMAIN stmts : stmts[i].node = "Assign"}
    IN [n \in {stmts[i].target.id : i \in assigns} |->
           eval_assign(stmts[CHOOSE i \in assigns :
               /\ stmts[i].target.id = n
               /\ \A j \in assigns : stmts[j].target.id = n => j <= i])]

\* Parameters.instantiate for the root of a selector tree whose choices are
\* file names.  UseAfterParameters asserts the parkey.
instantiate(parameters, parkeys, rmap_header) ==
    IF parkeys.type # "tuple" \/ parkeys.elts = <<>> THEN Raise("TypeError")
    ELSE LET mykeys == parkeys.elts[1]
             selections == [k \in DOMAIN parameters.selections |->
                               File(parameters.selections[k].s)]
         IN IF parameters.func = "Match"
            THEN Return(MatchingSelector(mykeys, selections, rmap_header))
            ELSE IF mykeys # UseAfterPars THEN Raise("AssertionError")
            ELSE Return(UseAfterSelector(mykeys, selections))

\* Mapping._interpret inside the try of _parse_header_selector: every
\* exception becomes a MappingError.
interpret(stmts) ==
    The({IF "header" \notin DOMAIN ns \/ "selector" \notin DOMAIN ns
         THEN Raise("MappingError")
         ELSE IF ns["selector"].type = "Parameters"
         THEN IF ns["header"].type # "dict" \/ "parkey" \notin DOMAIN ns["header"].items
              THEN Raise("MappingError")
              ELSE The({IF made.exc # "none" THEN Raise("MappingError")
                        ELSE Return([header |-> ns["header"], selector |-> made.value]) :
                           made \in {instantiate(ns["selector"],
                                                 ns["header"].items["parkey"],
                                                 ns["header"].items)}})
         ELSE Return([header |-> ns["header"], selector |-> ns["selector"]]) :
            ns \in {namespace(stmts)}})

\* Mapping._parse_header_selector on the text `lines`.
parse_header_selector(lines) ==
    The({IF checked # "none" THEN Raise(checked) ELSE interpret(body_from(lines, 1)) :
            checked \in {compile_and_check(lines)}})


(***************************************************************************)
(* File names, the text of a file and its checksum (rmap.py 341-361,       *)
(* 780-850).                                                               *)
(*                                                                         *)
(* A file name is the record Path(dir, base) of its directory ("" for a    *)
(* bare basename) and its basename; `files` maps the paths of the files on *)
(* disk to their lines.                                                    *)
(***************************************************************************)
Path(dir, base) == [dir |-> dir, base |-> base]
Bare(base) == Path("", base)

\* os.path.basename, os.path.dirname, os.path.join.
basename(path) == path.base
dirname(path) == path.dir
path_join(dir, base) == Path(dir, base)

\* mapping_to_observatory: basename.split("_")[0].split(".")[0].
mapping_to_observatory(context_file) ==
    CASE basename(context_file) \in {"hst.pmap", "hst_acs.imap",
             "hst_acs_biasfile.rmap", "hst_acs_darkfile.rmap",
             "hst_context"} -> "hst"
      [] OTHER -> basename(context_file)

\* The extension load_mapping dispatches on: mapping.endswith(...).
extension(mapping) ==
    CASE basename(mapping) = "hst.pmap" -> ".pmap"
      [] basename(mapping) = "hst_acs.imap" -> ".imap"
      [] basename(mapping) \in {"hst_acs_biasfile.rmap", "hst_acs_darkfile.rmap"} -> ".rmap"
      [] OTHER -> ""

get_crds_mappath == "crds/mappings"

\* locate_mapping.
locate_mapping(mappath) ==
    IF dirname(mappath) # "" THEN mappath
    ELSE path_join(get_crds_mappath \o "/" \o mapping_to_observatory(mappath),
                   basename(mappath))

\* The source text of an expression and of a line, with its newline.
expr_text(expr) ==
    CASE expr.node = "Str" -> "'" \o expr.s \o "'"
      [] expr.node = "Name" -> expr.id
      [] expr.node = "Tuple" -> "(" \o join([i \in DOMAIN expr.elts |->
                                    "'" \o expr.elts[i] \o "'"], ", ")
                                    \o (IF Len(expr.elts) = 1 THEN "," ELSE "") \o ")"
      [] expr.node = "Parkey" -> "((" \o join([i \in DOMAIN expr.pars |->
                                    "'" \o (IF expr.pars[i].star THEN "*" ELSE "")
                                        \o expr.pars[i].name \o "'"], ", ") \o ",),)"
      [] expr.node = "Call" ->
            (IF expr.func.node = "Name" THEN expr.func.id
             ELSE "<" \o expr.func.node \o ">") \o "({"
      [] expr.node = "Dict" -> "{"
      [] OTHER -> "<" \o expr.node \o ">"
line_text(line) ==
    CASE line.kind = "assign" ->
            expr_text(line.target) \o " = " \o expr_text(line.value) \o "\n"
      [] line.kind = "item" ->
            "    '" \o line.key \o "' : " \o expr_text(line.expr)
                \o "," \o line.note \o "\n"
      [] line.kind = "case" ->
            "    (" \o KeyName(line.match) \o ") : " \o expr_text(line.expr)
                \o "," \o line.note \o "\n"
      [] line.kind = "stmt" -> "<" \o line.node \o ">\n"
      [] line.kind = "comment" -> "#" \o line.text \o "\n"
      [] line.kind = "garbage" -> "}{\n"

\* `"sha1sum" in line`, for the texts that occur.
mentions_sha1sum(text) == text \in {" # sha1sum", " sha1sum follows"}
contains_sha1sum(line) ==
    CASE line.kind \in {"item", "case"} ->
            \/ line.kind = "item" /\ line.key = "sha1sum"
            \/ mentions_sha1sum(line.note)
      [] line.kind = "comment" -> mentions_sha1sum(line.text)
      [] OTHER -> FALSE

\* "".join(lines)
RECURSIVE text_of(_)
text_of(lines) ==
    IF lines = <<>> THEN "" ELSE line_text(Head(lines)) \o text_of(Tail(lines))

\* hashlib.sha1(text).hexdigest(): distinct texts have distinct digests.
sha1_hexdigest(text) == "sha1<" \o text \o ">"

\* The lines that do not contain "sha1sum", in order.
RECURSIVE without_sha1sum(_)
without_sha1sum(lines) ==
    IF lines = <<>> THEN <<>>
    ELSE IF contains_sha1sum(Head(lines)) THEN without_sha1sum(Tail(lines))
    ELSE <<Head(lines)>> \o without_sha1sum(Tail(lines))

\* Mapping._get_checksum of the file at locate_mapping(filename).
get_checksum(filename, fs) ==
    sha1_hexdigest(text_of(without_sha1sum(fs[locate_mapping(filename)])))

(***************************************************************************)
(* Mapping, from_file and the three tiers (rmap.py 188-268, 341-349,       *)
(* 456-474, 548-574, 659-664, 758-778).                                    *)
(***************************************************************************)
RaiseWith(e, message) == [exc |-> e, value |-> message]

\* Mapping.__init__.
Mapping(filename, header_, selector_) ==
    [filename |-> filename, header |-> header_, selector |-> selector_]

required_attrs(cls) ==
    CASE cls = "Mapping" -> <<>>
      [] cls = "PipelineContext" -> <<"observatory", "mapping", "parkey">>
      [] cls = "InstrumentContext" ->
            <<"observatory", "mapping", "parkey", "instrument">>
      [] cls = "ReferenceMapping" ->
            <<"observatory", "mapping", "parkey", "instrument", "reftype">>

is_dict(value) == "type" \in DOMAIN value /\ value.type = "dict"

\* val.lower() if isinstance(val, str) else val
lower_if_str(val) == IF val.type = "str" THEN PyStr(lower(val.s)) ELSE val

\* Mapping.__getattr__ for an attribute that is not set on the instance.
getattr(mapping, attr) ==
    IF attr \in Range(required_attrs(mapping.cls))
    THEN IF attr \in DOMAIN mapping.header.items
         THEN Return(lower_if_str(mapping.header.items[attr]))
         ELSE Raise("KeyError")
    ELSE Raise("AttributeError")

\* Fault variant of check_hash: only the presence of sha1sum is checked.
check_hash_present(mapping, fs) ==
    IF "sha1sum" \notin DOMAIN mapping.header.items THEN "ChecksumError" ELSE "none"

\* Mapping._check_hash: "none" or "ChecksumError".
check_hash(mapping, fs) ==
    IF "sha1sum" \notin DOMAIN mapping.header.items THEN "ChecksumError"
    ELSE IF PyStr(get_checksum(mapping.filename, fs)) # mapping.header.items["sha1sum"]
         THEN "ChecksumError"
         ELSE "none"

\* Mapping._validate_file_load: Return(mapping), or the exception; a
\* MissingHeaderKeyError carries the name of the first missing key.
validate_file_load(mapping, keys, fs) ==
    LET attrs == required_attrs(mapping.cls)
        missing == {i \in DOMAIN attrs : attrs[i] \notin DOMAIN mapping.header.items}
    IN IF missing # {}
       THEN RaiseWith("MissingHeaderKeyError",
                      attrs[CHOOSE i \in missing : \A j \in missing : i <= j])
       ELSE IF keys.ignore_checksum THEN Return(mapping)
       ELSE The({IF checked # "none" THEN Raise(checked) ELSE Return(mapping) :
                    checked \in {check_hash(mapping, fs)}})

\* The keys of the dict `d` in the order in which `for ... in d.items()`
\* visits them: that of `order`, a ranking of all keys, which stands for
\* the iteration order of the dict.
items_order(d, order) == SelectSeq(order, LAMBDA k : k \in DOMAIN d)

\* Mapping.from_file for cls = Mapping: no children, no required keys.
Mapping_from_file(filename, keys, fs) ==
    IF locate_mapping(filename) \notin DOMAIN fs THEN Raise("IOError")
    ELSE The({IF parsed.exc # "none" THEN parsed
              ELSE validate_file_load(
                       [cls |-> "Mapping"]
                           @@ Mapping(filename, parsed.value.header, parsed.value.selector),
                       keys, fs) :
                 parsed \in {parse_header_selector(fs[locate_mapping(filename)])}})

\* ReferenceMapping.from_file.
ReferenceMapping_from_file(filename, keys, fs) ==
    IF locate_mapping(filename) \notin DOMAIN fs THEN Raise("IOError")
    ELSE The({IF parsed.exc # "none" THEN parsed
              ELSE validate_file_load(
                       ReferenceMapping(parsed.value.selector)
                           @@ Mapping(filename, parsed.value.header, parsed.value.selector),
                       keys, fs) :
                 parsed \in {parse_header_selector(fs[locate_mapping(filename)])}})

\* Fault variant of instrument_asserts: the nested reftype is not compared.
instrument_asserts_no_reftype(self, reftype, refmap) ==
    LET mapping == getattr(self, "mapping")
        observatory == getattr(self, "observatory")
        instrument == getattr(self, "instrument")
    IN IF mapping.exc # "none" THEN mapping.exc
       ELSE IF mapping.value # PyStr("instrument") THEN "AssertionError"
       ELSE IF observatory.exc # "none" THEN observatory.exc
       ELSE IF observatory.value # lower_if_str(refmap.header.items["observatory"])
            THEN "AssertionError"
       ELSE IF instrument.exc # "none" THEN instrument.exc
       ELSE IF instrument.value # lower_if_str(refmap.header.items["instrument"])
            THEN "AssertionError"
       ELSE "none"

\* The asserts of InstrumentContext.__init__ after the reference mapping
\* of `reftype` (lower case) was loaded: "none" or the exception.
instrument_asserts(self, reftype, refmap) ==
    LET mapping == getattr(self, "mapping")
        observatory == getattr(self, "observatory")
        instrument == getattr(self, "instrument")
    IN IF mapping.exc # "none" THEN mapping.exc
       ELSE IF mapping.value # PyStr("instrument") THEN "AssertionError"
       ELSE IF observatory.exc # "none" THEN observatory.exc
       ELSE IF observatory.value # lower_if_str(refmap.header.items["observatory"])
            THEN "AssertionError"
       ELSE IF instrument.exc # "none" THEN instrument.exc
       ELSE IF instrument.value # lower_if_str(refmap.header.items["instrument"])
            THEN "AssertionError"
       ELSE IF lower_if_str(refmap.header.items["reftype"]) # PyStr(reftype)
            THEN "AssertionError"
       ELSE "none"

\* The loop of InstrumentContext.__init__ over the reftypes `todo`, with
\* the selections made so far: Return(selections) or the first exception.
RECURSIVE load_rmaps(_, _, _, _, _)
load_rmaps(self, todo, selections, keys, fs) ==
    IF todo = <<>> THEN Return(selections)
    ELSE LET value == self.selector.items[Head(todo)]
             reftype == lower(Head(todo))
         IN IF value.type # "tuple" THEN
                (IF value.type = "str" THEN Raise("ValueError") ELSE Raise("TypeError"))
            ELSE IF Len(value.elts) # 2 THEN Raise("ValueError")
            ELSE The({IF refmap.exc # "none" THEN refmap
                      ELSE The({IF asserted # "none" THEN Raise(asserted)
                                ELSE load_rmaps(self, Tail(todo),
                                         (reftype :> refmap.value) @@ selections,
                                         keys, fs) :
                                   asserted \in
                                       {instrument_asserts(self, reftype, refmap.value)}}) :
                         refmap \in
                             {ReferenceMapping_from_file(Bare(value.elts[2]), keys, fs)}})

\* InstrumentContext.from_file.
InstrumentContext_from_file(filename, keys, fs, order) ==
    IF locate_mapping(filename) \notin DOMAIN fs THEN Raise("IOError")
    ELSE The({IF parsed.exc # "none" THEN parsed
              ELSE IF ~is_dict(parsed.value.selector) THEN Raise("AttributeError")
              ELSE The({The({IF loaded.exc # "none" THEN loaded
                             ELSE validate_file_load(
                                      InstrumentContext(loaded.value) @@ self, keys, fs) :
                                loaded \in
                                    {load_rmaps(self,
                                         items_order(self.selector.items, order),
                                         EmptyDict, keys, fs)}}) :
                          self \in
                              {[cls |-> "InstrumentContext"]
                                   @@ Mapping(filename, parsed.value.header,
                                              parsed.value.selector)}}) :
                 parsed \in {parse_header_selector(fs[locate_mapping(filename)])}})

\* The asserts of PipelineContext.__init__ after the instrument context of
\* `instrument` (lower case) was loaded: "none" or the exception.
pipeline_asserts(self, instrument, ictx) ==
    LET mapping == getattr(self, "mapping")
        observatory == getattr(self, "observatory")
    IN IF mapping.exc # "none" THEN mapping.exc
       ELSE IF mapping.value # PyStr("pipeline") THEN "AssertionError"
       ELSE IF observatory.exc # "none" THEN observatory.exc
       ELSE IF observatory.value # lower_if_str(ictx.header.items["observatory"])
            THEN "AssertionError"
       ELSE IF PyStr(instrument) # lower_if_str(ictx.header.items["instrument"])
            THEN "AssertionError"
       ELSE "none"

\* The loop of PipelineContext.__init__ over the instruments `todo`.
RECURSIVE load_imaps(_, _, _, _, _, _)
load_imaps(self, todo, selections, keys, fs, order) ==
    IF todo = <<>> THEN Return(selections)
    ELSE LET imapname == self.selector.items[Head(todo)]
             instrument == lower(Head(todo))
         IN IF imapname.type # "str" THEN Raise("AttributeError")
            ELSE The({IF ictx.exc # "none" THEN ictx
                      ELSE The({IF asserted # "none" THEN Raise(asserted)
                                ELSE load_imaps(self, Tail(todo),
                                         (instrument :> ictx.value) @@ selections,
                                         keys, fs, order) :
                                   asserted \in
                                       {pipeline_asserts(self, instrument, ictx.value)}}) :
                         ictx \in
                             {InstrumentContext_from_file(Bare(imapname.s), keys, fs,
                                                          order)}})

\* PipelineContext.from_file.
PipelineContext_from_file(filename, keys, fs, order) ==
    IF locate_mapping(filename) \notin DOMAIN fs THEN Raise("IOError")
    ELSE The({IF parsed.exc # "none" THEN parsed
              ELSE IF ~is_dict(parsed.value.selector) THEN Raise("AttributeError")
              ELSE The({The({IF loaded.exc # "none" THEN loaded
                             ELSE validate_file_load(
                                      PipelineContext(loaded.value) @@ self, keys, fs) :
                                loaded \in
                                    {load_imaps(self,
                                         items_order(self.selector.items, order),
                                         EmptyDict, keys, fs, order)}}) :
                          self \in
                              {[cls |-> "PipelineContext"]
                                   @@ Mapping(filename, parsed.value.header,
                                              parsed.value.selector)}}) :
                 parsed \in {parse_header_selector(fs[locate_mapping(filename)])}})

\* cls.from_file.
from_file(cls, filename, keys, fs, order) ==
    CASE cls = "PipelineContext" -> PipelineContext_from_file(filename, keys, fs, order)
      [] cls = "InstrumentContext" -> InstrumentContext_from_file(filename, keys, fs, order)
      [] cls = "ReferenceMapping" -> ReferenceMapping_from_file(filename, keys, fs)

\* load_mapping: the class by the extension, else by the header of the
\* file, loaded as a plain Mapping and with its checksum checked.
load_mapping(mapping, keys, fs, order) ==
    The({IF cls.exc # "none" THEN cls
         ELSE from_file(cls.value, mapping, keys, fs, order) :
            cls \in
                {CASE extension(mapping) = ".pmap" -> Return("PipelineContext")
                   [] extension(mapping) = ".imap" -> Return("InstrumentContext")
                   [] extension(mapping) = ".rmap" -> Return("ReferenceMapping")
                   [] OTHER ->
                        The({IF m.exc # "none" THEN m
                             ELSE IF "mapping" \notin DOMAIN m.value.header.items
                             THEN Raise("KeyError")
                             ELSE LET tier == m.value.header.items["mapping"]
                                  IN CASE tier = PyStr("pipeline") ->
                                             Return("PipelineContext")
                                       [] tier = PyStr("instrument") ->
                                             Return("InstrumentContext")
                                       [] tier = PyStr("reference") ->
                                             Return("ReferenceMapping")
                                       [] OTHER -> Raise("ValueError") :
                                m \in {Mapping_from_file(
                                           mapping, [ignore_checksum |-> FALSE], fs)}})}})


(***************************************************************************)
(* Inputs of the loader specifications: the files of one observatory, a    *)
(* pipeline with one instrument and two reference types, and the edits     *)
(* that make a file defective.                                             *)
(***************************************************************************)
MappingsDir == get_crds_mappath \o "/hst"

PmapLines ==
    <<Assign(Name("header"), DictNode),
      Item("observatory", StrNode("hst"), ""),
      Item("mapping", StrNode("pipeline"), ""),
      Item("parkey", TupleNode(<<"INSTRUME">>), ""),
      Item("sha1sum", StrNode("unset"), ""),
      Assign(Name("selector"), DictNode),
      Item("ACS", StrNode("hst_acs.imap"), "")>>

ImapLines ==
    <<Assign(Name("header"), DictNode),
      Item("observatory", StrNode("hst"), ""),
      Item("mapping", StrNode("instrument"), ""),
      Item("instrument", StrNode("ACS"), ""),
      Item("parkey", TupleNode(<<"REFTYPE">>), ""),
      Item("sha1sum", StrNode("unset"), ""),
      Assign(Name("selector"), DictNode),
      Item("BIASFILE", TupleNode(<<"bia", "hst_acs_biasfile.rmap">>), ""),
      Item("darkfile", TupleNode(<<"drk", "hst_acs_darkfile.rmap">>), "")>>

RmapLines(reftype) ==
    <<Assign(Name("header"), DictNode),
      Item("observatory", StrNode("hst"), ""),
      Item("mapping", StrNode("reference"), ""),
      Item("instrument", StrNode("acs"), ""),
      Item("reftype", StrNode(reftype), ""),
      Item("parkey", ParkeyNode(<<Par(FALSE, "foo")>>), ""),
      Item("sha1sum", StrNode("unset"), ""),
      Assign(Name("selector"), CallNode(Name("Match"))),
      Case(TupleKey(<<Lit("1.0")>>), StrNode(reftype \o "_1.0.fits"), "")>>

Basenames ==
    {"hst.pmap", "hst_acs.imap", "hst_acs_biasfile.rmap",
     "hst_acs_darkfile.rmap", "hst_context"}

BaseLines(base) ==
    CASE base \in {"hst.pmap", "hst_context"} -> PmapLines
      [] base = "hst_acs.imap" -> ImapLines
      [] base = "hst_acs_biasfile.rmap" -> RmapLines("biasfile")
      [] base = "hst_acs_darkfile.rmap" -> RmapLines("darkfile")

\* The text with the digest of its other lines in its sha1sum field.
sealed(lines) ==
    [i \in DOMAIN lines |->
        IF lines[i].kind = "item" /\ lines[i].key = "sha1sum"
        THEN Item("sha1sum",
                  StrNode(sha1_hexdigest(text_of(without_sha1sum(lines)))),
                  lines[i].note)
        ELSE lines[i]]

\* Edits of a text: line `at` dropped, replaced by `line`, followed by
\* `line`, or replaced by `line` together with everything after it.
Drop(at) == [op |-> "drop", at |-> at]
Replace(at, line) == [op |-> "replace", at |-> at, line |-> line]
Insert(at, line) == [op |-> "insert", at |-> at, line |-> line]
Tail_(at, line) == [op |-> "tail", at |-> at, line |-> line]

edit(lines, d) ==
    CASE d.op = "drop" ->
            SubSeq(lines, 1, d.at - 1) \o SubSeq(lines, d.at + 1, Len(lines))
      [] d.op = "replace" ->
            SubSeq(lines, 1, d.at - 1) \o <<d.line>>
                \o SubSeq(lines, d.at + 1, Len(lines))
      [] d.op = "insert" ->
            SubSeq(lines, 1, d.at) \o <<d.line>>
                \o SubSeq(lines, d.at + 1, Len(lines))
      [] d.op = "tail" -> SubSeq(lines, 1, d.at - 1) \o <<d.line>>

\* A defect is an edit of one file, made before the checksum of the file
\* was written (the file is defective but sealed) or after it (stale).
Defect(base, d, stale) == [base |-> base, edit |-> d, stale |-> stale]

\* Header keys and selector entries left out.
MissingLines ==
    {Defect("hst.pmap", Drop(at), FALSE) : at \in {2, 3, 4, 5, 7}}
    \cup {Defect("hst_acs.imap", Drop(at), FALSE) : at \in {2, 3, 4, 5, 8}}
    \cup {Defect("hst_acs_biasfile.rmap", Drop(at), FALSE) : at \in {2, 3, 4, 5, 6, 7, 9}}

\* Header values and child names that disagree with the rest of the closure.
WrongValues ==
    {Defect("hst.pmap", Replace(3, Item("mapping", StrNode("reference"), "")), FALSE),
     Defect("hst.pmap", Replace(7, Item("ACS", StrNode("hst.pmap"), "")), FALSE),
     Defect("hst.pmap", Replace(7, Item("COS", StrNode("hst_acs.imap"), "")), FALSE),
     Defect("hst_acs.imap", Replace(2, Item("observatory", StrNode("jwst"), "")), FALSE),
     Defect("hst_acs.imap", Replace(3, Item("mapping", StrNode("INSTRUMENT"), "")), FALSE),
     Defect("hst_acs.imap", Replace(3, Item("mapping", StrNode("pipeline"), "")), FALSE),
     Defect("hst_acs.imap",
            Replace(8, Item("BIASFILE", TupleNode(<<"bia", "hst_acs.imap">>), "")), FALSE),
     Defect("hst_acs.imap",
            Replace(8, Item("BIASFILE", TupleNode(<<"bia", "hst_acs_darkfile.rmap">>), "")),
            FALSE),
     Defect("hst_acs.imap", Insert(5, Item("reftype", StrNode("biasfile"), "")), FALSE),
     Defect("hst_acs_biasfile.rmap",
            Replace(2, Item("observatory", StrNode("HST"), "")), FALSE),
     Defect("hst_acs_biasfile.rmap",
            Replace(2, Item("observatory", StrNode("jwst"), "")), FALSE),
     Defect("hst_acs_biasfile.rmap",
            Replace(3, Item("mapping", StrNode("pipeline"), "")), FALSE),
     Defect("hst_acs_biasfile.rmap",
            Replace(4, Item("instrument", StrNode("COS"), "")), FALSE),
     Defect("hst_acs_biasfile.rmap",
            Replace(5, Item("reftype", StrNode("darkfile"), "")), FALSE)}

\* Constructs outside the mapping language, at the top level, as the value
\* of a section and inside the header dict.
ForbiddenConstructs ==
    {Defect("hst_acs_biasfile.rmap", Insert(9, Stmt(n)), FALSE) :
        n \in {"Import", "Print"}}
    \cup {Defect("hst_acs_biasfile.rmap", Tail_(8, Stmt(n)), FALSE) :
             n \in {"FunctionDef", "For", "Exec"}}
    \cup {Defect("hst_acs_biasfile.rmap",
                 Tail_(8, Assign(Name("selector"), Node("Lambda"))), FALSE),
          Defect("hst_acs_biasfile.rmap",
                 Tail_(8, Assign(Name("selector"), CallNode(Name("open")))), FALSE),
          Defect("hst_acs_biasfile.rmap",
                 Tail_(8, Assign(Name("selector"), CallNode(Node("Attribute")))), FALSE),
          Defect("hst_acs_biasfile.rmap", Insert(9, Garbage), FALSE)}
    \cup {Defect("hst_acs_biasfile.rmap", Insert(1, Item("note", Node(n), "")), FALSE) :
             n \in {"Lambda", "Attribute", "Subscript", "Yield", "ListComp"}}

\* Edits of a file that carries the checksum of its earlier text.
StaleEdits ==
    {Defect("hst_acs_biasfile.rmap",
            Replace(9, Case(TupleKey(<<Lit("1.0")>>), StrNode("other.fits"), "")), TRUE),
     Defect("hst_acs_biasfile.rmap",
            Replace(7, Item("sha1sum", StrNode("unset"), "")), TRUE),
     Defect("hst_acs.imap", Drop(9), TRUE),
     Defect("hst_acs_biasfile.rmap", Insert(7, Comment(" sha1sum follows")), TRUE),
     Defect("hst_acs_biasfile.rmap",
            Replace(7, Item("sha1sum", StrNode("unset"), " # sha1sum")), FALSE)}

Defects == MissingLines \cup WrongValues \cup ForbiddenConstructs \cup StaleEdits

\* The text of `base` with the defects `ds`: those of a sealed text, then
\* the stale ones.  Defects of one file touch different lines.
RECURSIVE edit_all(_, _)
edit_all(lines, ds) ==
    IF ds = {} THEN lines
    ELSE LET d == CHOOSE d \in ds : \A o \in ds : d.edit.at >= o.edit.at
         IN edit_all(edit(lines, d.edit), ds \ {d})

defective(base, ds) ==
    edit_all(sealed(edit_all(BaseLines(base),
                             {d \in ds : d.base = base /\ ~d.stale})),
             {d \in ds : d.base = base /\ d.stale})

\* Files with several defects: contexts with an empty selector, with and
\* without their 'mapping' key or with that of another tier, and an
\* instrument context that names itself as one of its reference mappings.
EmptyPmap == Defect("hst.pmap", Drop(7), FALSE)
EmptyImap == {Defect("hst_acs.imap", Drop(at), FALSE) : at \in {8, 9}}
SeveralDefects ==
    {{EmptyPmap, Defect("hst.pmap", Drop(3), FALSE)},
     {EmptyPmap, Defect("hst.pmap", Drop(2), FALSE)},
     {EmptyPmap,
      Defect("hst.pmap", Replace(3, Item("mapping", StrNode("reference"), "")), FALSE)},
     EmptyImap,
     EmptyImap \cup {Defect("hst_acs.imap", Drop(3), FALSE)},
     EmptyImap \cup
         {Defect("hst_acs.imap",
                 Replace(3, Item("mapping", StrNode("pipeline"), "")), FALSE)},
     {Defect("hst_acs.imap", Insert(5, Item("reftype", StrNode("biasfile"), "")), FALSE),
      Defect("hst_acs.imap",
             Replace(8, Item("BIASFILE", TupleNode(<<"bia", "hst_acs.imap">>), "")),
             FALSE)}}

\* The sets of defects of the file systems: none, one, or several.
DefectSets == {{}} \cup {{d} : d \in Defects} \cup SeveralDefects

\* The file systems: every file of the closure in the mappings directory
\* of its observatory.
Store(ds) ==
    [path \in {Path(MappingsDir, base) : base \in Basenames} |->
        defective(basename(path), ds)]
Stores ==
    {Store(ds) : ds \in DefectSets}
ValidStore == Store({})

\* The orders in which a dict of the files can be iterated.
KeyOrders ==
    {<<"ACS", "COS", "BIASFILE", "darkfile">>, <<"ACS", "COS", "darkfile", "BIASFILE">>}


(***************************************************************************)
(* The mapping cache (rmap.py 744-756) and mapping_names (rmap.py 502-509, *)
(* 625-632, 678-680).                                                      *)
(***************************************************************************)
\* Fault variant of get_cached_mapping: a failed load leaves what it had
\* built in the cache.
get_cached_mapping_partial(mapping_basename, keys, cached, fs, order) ==
    IF mapping_basename \in DOMAIN cached
    THEN [cache |-> cached, result |-> Return(cached[mapping_basename])]
    ELSE The({IF loaded.exc # "none"
              THEN [cache |-> (mapping_basename :>
                                  [cls |-> "ReferenceMapping",
                                   filename |-> mapping_basename]) @@ cached,
                    result |-> loaded]
              ELSE [cache |-> (mapping_basename :> loaded.value) @@ cached,
                    result |-> Return(loaded.value)] :
                 loaded \in {load_mapping(mapping_basename, keys, fs, order)}})

\* get_cached_mapping with CACHED_MAPPINGS = cached: the cache after the
\* call and its outcome.
get_cached_mapping(mapping_basename, keys, cached, fs, order) ==
    IF mapping_basename \in DOMAIN cached
    THEN [cache |-> cached, result |-> Return(cached[mapping_basename])]
    ELSE The({IF loaded.exc # "none" THEN [cache |-> cached, result |-> loaded]
              ELSE [cache |-> (mapping_basename :> loaded.value) @@ cached,
                    result |-> Return(loaded.value)] :
                 loaded \in {load_mapping(mapping_basename, keys, fs, order)}})

\* Fault variant of mapping_names: a pipeline context lists itself and its
\* instrument contexts only.
mapping_names_shallow(mapping) ==
    IF mapping.cls = "ReferenceMapping" THEN {basename(mapping.filename)}
    ELSE {basename(mapping.filename)}
             \cup {basename(mapping.selections[k].filename) :
                      k \in DOMAIN mapping.selections}

\* mapping_names of the three tiers, as the set of the names in the list
\* returned: a reference mapping lists itself, an instrument context itself
\* and the files of its selections, a pipeline context itself and the
\* mapping_names of its selections.
RECURSIVE mapping_names(_)
mapping_names(mapping) ==
    CASE mapping.cls = "ReferenceMapping" -> {basename(mapping.filename)}
      [] mapping.cls = "InstrumentContext" ->
            {basename(mapping.filename)}
                \cup {basename(mapping.selections[reftype].filename) :
                         reftype \in DOMAIN mapping.selections}
      [] mapping.cls = "PipelineContext" ->
            {basename(mapping.filename)}
                \cup UNION {mapping_names(mapping.selections[instrument]) :
                               instrument \in DOMAIN mapping.selections}

\* The keyword arguments of a load.
LoadKeys == {[ignore_checksum |-> ignore] : ignore \in BOOLEAN}

\* The file systems of the specification.
LoadStores == Stores

InitLoad ==
    /\ files \in LoadStores
    /\ cache = EmptyDict
    /\ call = NoCall
    /\ result = NoResult
    /\ pc = "idle"
    /\ selector = NoHeader /\ header = NoHeader
    /\ candidates = <<>> /\ remaining = <<>> /\ idx = 0 /\ tried = <<>>
    /\ before = NoHeader /\ refs = EmptyDict /\ threads = EmptyDict

\* One call get_cached_mapping(mapping_basename, **keys).
cached_mapping_call ==
    \E base \in Basenames, keys \in LoadKeys, order \in KeyOrders :
        \E got \in {get_cached_mapping(Bare(base), keys, cache, files, order)} :
           /\ cache' = got.cache
           /\ result' = got.result
           /\ call' = [op |-> "get_cached_mapping", mapping |-> Bare(base),
                       keys |-> keys]
           /\ UNCHANGED <<selector, header, pc, candidates, remaining, idx,
                          tried, before, refs, files, threads>>

\* One call mapping_names() on a mapping of the cache.
mapping_names_call ==
    \E name \in DOMAIN cache :
        /\ result' = Return(mapping_names(cache[name]))
        /\ call' = [op |-> "mapping_names", mapping |-> name]
        /\ UNCHANGED <<selector, header, pc, candidates, remaining, idx,
                       tried, before, refs, files, cache, threads>>

NextLoad == cached_mapping_call \/ mapping_names_call
SpecLoad == InitLoad /\ [][NextLoad]_vars


(***************************************************************************)
(* Claims about the loader and the cache.                                  *)
(***************************************************************************)
\* The mapping is what some complete load of its file returns.
LoadedWhole(mapping) ==
    \E keys \in LoadKeys, order \in KeyOrders :
        from_file(mapping.cls, mapping.filename, keys, files, order) = Return(mapping)

\* The mappings a loaded mapping holds, itself included.
RECURSIVE closure(_)
closure(mapping) ==
    IF mapping.cls = "ReferenceMapping" THEN {mapping}
    ELSE {mapping} \cup UNION {closure(mapping.selections[k]) :
                                  k \in DOMAIN mapping.selections}

C11_Entries ==
    \A name \in DOMAIN cache :
        /\ \E keys \in LoadKeys, order \in KeyOrders :
              load_mapping(name, keys, files, order) = Return(cache[name])
        /\ \A mapping \in closure(cache[name]) : LoadedWhole(mapping)

C11_FailedCall ==
    /\ call'.op = "get_cached_mapping"
    /\ result'.exc # "none"

\* C11: the cache holds an entry for a basename only if a load of that
\* basename and of every mapping it references completed successfully, and
\* a get_cached_mapping call that fails leaves the cache as it was.
C11_CacheHoldsLoaded ==
    /\ []C11_Entries
    /\ [][C11_FailedCall => cache' = cache]_vars

\* A pipeline load failed in a reference mapping while the cache already
\* held another mapping, and the cache holds nothing of the failed load.
C11_Witness ==
    /\ call.op = "get_cached_mapping"
    /\ call.mapping = Bare("hst.pmap")
    /\ result.exc = "MissingHeaderKeyError"
    /\ DOMAIN cache = {Bare("hst_acs_darkfile.rmap")}


(***************************************************************************)
(* get_cached_mapping called from several threads (rmap.py 744-756).  The  *)
(* function takes no lock, and the interpreter can switch threads between  *)
(* its steps: the membership test, load_mapping, the assignment to         *)
(* CACHED_MAPPINGS and the subscription that is returned.  A thread is     *)
(* [pc, mapping, keys, loaded, returned]; `idx` counts the loads made, and *)
(* the n-th load yields the object with id n.                              *)
(***************************************************************************)
MaxThreads == 2

Threads == 1 .. MaxThreads
ThreadBasenames == {"hst.pmap", "hst_acs_biasfile.rmap"}
ThreadStores ==
    {ValidStore, Store({Defect("hst_acs_biasfile.rmap", Drop(5), FALSE)})}

IdleThread == [pc |-> "idle"]

InitThreads ==
    /\ files \in ThreadStores
    /\ cache = EmptyDict
    /\ threads = [t \in Threads |-> IdleThread]
    /\ idx = 0
    /\ call = NoCall
    /\ result = NoResult
    /\ pc = "idle"
    /\ selector = NoHeader /\ header = NoHeader
    /\ candidates = <<>> /\ remaining = <<>> /\ tried = <<>>
    /\ before = NoHeader /\ refs = EmptyDict

ThreadsUnchanged ==
    UNCHANGED <<selector, header, pc, candidates, remaining, tried, result,
                before, refs, files, call>>

\* Thread t enters get_cached_mapping(mapping_basename, **keys).
thread_call(t) ==
    /\ threads[t].pc = "idle"
    /\ \E base \in ThreadBasenames, keys \in LoadKeys :
          threads' = [threads EXCEPT ![t] =
                         [pc |-> "test", mapping |-> Bare(base), keys |-> keys]]
    /\ UNCHANGED <<cache, idx>>
    /\ ThreadsUnchanged

\* if mapping_basename not in CACHED_MAPPINGS:
thread_test(t) ==
    /\ threads[t].pc = "test"
    /\ threads' = [threads EXCEPT ![t].pc =
                      IF threads[t].mapping \in DOMAIN cache THEN "return" ELSE "load"]
    /\ UNCHANGED <<cache, idx>>
    /\ ThreadsUnchanged

\* load_mapping(mapping_basename, **keys): the file is parsed and a new
\* mapping object built, or the exception leaves the function.
thread_load(t) ==
    /\ threads[t].pc = "load"
    /\ \E order \in KeyOrders :
          \E loaded \in {load_mapping(threads[t].mapping, threads[t].keys,
                                      files, order)} :
             threads' = [threads EXCEPT ![t] =
                 IF loaded.exc # "none"
                 THEN [pc |-> "raised", exc |-> loaded.exc] @@ threads[t]
                 ELSE [pc |-> "store",
                       loaded |-> [id |-> idx + 1] @@ loaded.value] @@ threads[t]]
    /\ idx' = idx + 1
    /\ UNCHANGED cache
    /\ ThreadsUnchanged

\* CACHED_MAPPINGS[mapping_basename] = <the loaded mapping>
thread_store(t) ==
    /\ threads[t].pc = "store"
    /\ cache' = (threads[t].mapping :> threads[t].loaded) @@ cache
    /\ threads' = [threads EXCEPT ![t].pc = "return"]
    /\ UNCHANGED idx
    /\ ThreadsUnchanged

\* return CACHED_MAPPINGS[mapping_basename]
thread_return(t) ==
    /\ threads[t].pc = "return"
    /\ threads' = [threads EXCEPT ![t] =
                      [pc |-> "returned", returned |-> cache[threads[t].mapping]]
                          @@ threads[t]]
    /\ UNCHANGED <<cache, idx>>
    /\ ThreadsUnchanged

NextThreads ==
    \E t \in Threads :
        \/ thread_call(t)
        \/ thread_test(t)
        \/ thread_load(t)
        \/ thread_store(t)
        \/ thread_return(t)
SpecThreads == InitThreads /\ [][NextThreads]_vars

\* The threads that are loading `name`: past the membership test and not
\* yet past the assignment.
Loading(name) ==
    {t \in Threads : threads[t].pc \in {"load", "store"} /\ threads[t].mapping = name}

\* The objects returned to the callers that asked for `name`.
Returned(name) ==
    {threads[t].returned.id :
        t \in {t \in Threads : threads[t].pc = "returned" /\ threads[t].mapping = name}}

\* C12: of the threads that call get_cached_mapping for one basename, at
\* most one is loading it at any time, and all callers are returned the
\* same mapping object.
C12_OneLoadPerBasename ==
    \A name \in {Bare(base) : base \in ThreadBasenames} :
        /\ Cardinality(Loading(name)) <= 1
        /\ Cardinality(Returned(name)) <= 1


(***************************************************************************)
(* Files changed after their checksum was written (rmap.py 259-268,        *)
(* 341-361): a file of a valid file system is changed in one line, and     *)
(* mappings are loaded with and without ignore_checksum.  `before` holds   *)
(* the file system as it was sealed.                                       *)
(***************************************************************************)
\* Valid file systems: the plain one, and one whose reference mapping
\* mentions sha1sum in a comment and after the sha1sum field.
SealedStores ==
    {ValidStore,
     Store({Defect("hst_acs_biasfile.rmap", Insert(7, Comment(" sha1sum follows")), FALSE),
            Defect("hst_acs_biasfile.rmap",
                   Replace(7, Item("sha1sum", StrNode("unset"), " # sha1sum")), FALSE)})}

OtherNote(note) ==
    CASE note = "" -> {" # edited", " # sha1sum"}
      [] note = " # sha1sum" -> {" sha1sum follows", " # edited"}
      [] OTHER -> {" # edited"}

\* The lines that `line` can become when bytes of it are changed.
Changed(line) ==
    CASE line.kind = "item" ->
            {Item(line.key, StrNode("tampered"), line.note),
             Item("tampered", line.expr, line.note)}
            \cup {Item(line.key, line.expr, note) : note \in OtherNote(line.note)}
      [] line.kind = "case" ->
            {Case(line.match, StrNode("tampered"), line.note)}
            \cup {Case(line.match, line.expr, note) : note \in OtherNote(line.note)}
      [] line.kind = "comment" -> {Comment(" edited"), Garbage}
      [] line.kind = "assign" -> {Garbage}
      [] OTHER -> {}

InitTamper ==
    /\ files \in SealedStores
    /\ before = files
    /\ pc = "sealed"
    /\ call = NoCall
    /\ result = NoResult
    /\ cache = EmptyDict /\ threads = EmptyDict
    /\ selector = NoHeader /\ header = NoHeader
    /\ candidates = <<>> /\ remaining = <<>> /\ idx = 0 /\ tried = <<>>
    /\ refs = EmptyDict

\* Bytes of one line of one file are changed.
tamper ==
    /\ pc = "sealed"
    /\ \E path \in DOMAIN files :
          \E at \in DOMAIN files[path] :
             \E line \in Changed(files[path][at]) :
                /\ files' = [files EXCEPT ![path] = edit(@, Replace(at, line))]
                /\ call' = [op |-> "tamper", path |-> path, at |-> at]
    /\ pc' = "tampered"
    /\ result' = NoResult
    /\ UNCHANGED <<selector, header, candidates, remaining, idx, tried,
                   before, refs, cache, threads>>

\* One call load_mapping(mapping, **keys).
load_mapping_call ==
    /\ \E base \in Basenames, keys \in LoadKeys, order \in KeyOrders :
          /\ result' = load_mapping(Bare(base), keys, files, order)
          /\ call' = [op |-> "load_mapping", mapping |-> Bare(base), keys |-> keys]
    /\ UNCHANGED <<selector, header, pc, candidates, remaining, idx, tried,
                   before, refs, files, cache, threads>>

NextTamper == tamper \/ load_mapping_call
SpecTamper == InitTamper /\ [][NextTamper]_vars

\* The header's sha1sum is the hash of the file of `mapping` without its
\* lines that contain "sha1sum".
ChecksumMatches(mapping) ==
    /\ "sha1sum" \in DOMAIN mapping.header.items
    /\ mapping.header.items["sha1sum"] = PyStr(get_checksum(mapping.filename, files))

\* The file at `path` differs from the sealed one outside the lines that
\* contain "sha1sum", or in the digest of its sha1sum field.
Sha1sumField(lines) ==
    {lines[i].expr : i \in {i \in DOMAIN lines :
                               lines[i].kind = "item" /\ lines[i].key = "sha1sum"}}
ChangedUnderChecksum(path) ==
    \/ without_sha1sum(files[path]) # without_sha1sum(before[path])
    \/ Sha1sumField(files[path]) # Sha1sumField(before[path])

sub_sha1sum(line, xsum) ==
    IF line.kind = "item" /\ line.key = "sha1sum"
           /\ line.expr.node = "Str" /\ line.expr.s # ""
    THEN Item("sha1sum", StrNode(xsum), line.note)
    ELSE line

\* "sha1sum" in open(self.filename).read()
text_contains_sha1sum(lines) == \E i \in DOMAIN lines : contains_sha1sum(lines[i])

\* rewrite_checksum() on a loaded mapping: the file system afterwards, or
\* the exception.
rewrite_checksum(self, fs) ==
    IF locate_mapping(self.filename) \notin DOMAIN fs THEN Raise("IOError")
    ELSE IF self.filename \notin DOMAIN fs THEN Raise("IOError")
    ELSE IF ~text_contains_sha1sum(fs[self.filename]) THEN Raise("AssertionError")
    ELSE Return([fs EXCEPT ![self.filename] =
                    [i \in DOMAIN @ |->
                        sub_sha1sum(@[i], get_checksum(self.filename, fs))]])

\* File systems: the mappings directory with valid files or with a
\* reference mapping whose checksum is stale, and the current directory
\* empty, with a copy of the reference mapping or with another file of
\* its name.
InWorkingDirectory(store) ==
    {EmptyDict,
     Bare("hst_acs_biasfile.rmap") :> store[Path(MappingsDir, "hst_acs_biasfile.rmap")],
     Bare("hst_acs_biasfile.rmap") :> sealed(RmapLines("darkfile"))}
RewriteStores ==
    UNION {{store @@ cwd : cwd \in InWorkingDirectory(store)} :
              store \in SealedStores
                  \cup {Store({Defect("hst_acs_biasfile.rmap",
                                      Replace(9, Case(TupleKey(<<Lit("1.0")>>),
                                                      StrNode("other.fits"), "")),
                                      TRUE)})}}

RewriteNames ==
    {Bare("hst_acs_biasfile.rmap"), Path(MappingsDir, "hst_acs_biasfile.rmap"),
     Bare("hst.pmap"), Path(MappingsDir, "hst.pmap")}

InitRewrite ==
    /\ files \in RewriteStores
    /\ before = files
    /\ cache = EmptyDict
    /\ pc = "start"
    /\ call = NoCall
    /\ result = NoResult
    /\ threads = EmptyDict
    /\ selector = NoHeader /\ header = NoHeader
    /\ candidates = <<>> /\ remaining = <<>> /\ idx = 0 /\ tried = <<>>
    /\ refs = EmptyDict

\* get_cached_mapping(name, **keys) for a basename or a full path.
rewrite_load ==
    /\ \E name \in RewriteNames, keys \in LoadKeys, order \in KeyOrders :
          \E got \in {get_cached_mapping(name, keys, cache, files, order)} :
             /\ cache' = got.cache
             /\ result' = got.result
             /\ call' = [op |-> "get_cached_mapping", mapping |-> name, keys |-> keys]
    /\ UNCHANGED <<selector, header, pc, candidates, remaining, idx, tried,
                   before, refs, files, threads>>

\* mapping.rewrite_checksum() on a mapping of the cache.
rewrite_checksum_call ==
    /\ pc = "start"
    /\ \E name \in DOMAIN cache :
          \E written \in {rewrite_checksum(cache[name], files)} :
             /\ files' = IF written.exc = "none" THEN written.value ELSE files
             /\ result' = IF written.exc = "none" THEN Return("None") ELSE written
             /\ call' = [op |-> "rewrite_checksum", mapping |-> name]
    /\ pc' = "rewritten"
    /\ UNCHANGED <<selector, header, candidates, remaining, idx, tried,
                   before, refs, cache, threads>>

NextRewrite == rewrite_load \/ rewrite_checksum_call
SpecRewrite == InitRewrite /\ [][NextRewrite]_vars

\* The file `name` resolves to carried a valid checksum when the file
\* system was set up.
ValidBefore(name) ==
    \E order \in KeyOrders :
        load_mapping(name, [ignore_checksum |-> FALSE], before, order).exc = "none"

\* The lines of the text other than the digest of its sha1sum field.
OtherThanDigest(lines) ==
    [i \in DOMAIN lines |->
        IF lines[i].kind = "item" /\ lines[i].key = "sha1sum"
        THEN Item("sha1sum", StrNode(""), lines[i].note) ELSE lines[i]]

\* C14: rewrite_checksum on the mapping loaded from a file with a valid
\* checksum succeeds, the file then loads with a valid checksum and with
\* the header and selector of the mapping, and every line but the sha1sum
\* field is preserved.
C14_RoundTrip ==
    (/\ call.op = "rewrite_checksum"
     /\ ValidBefore(call.mapping))
    => /\ result.exc = "none"
       /\ \A order \in KeyOrders :
             \A again \in {load_mapping(call.mapping, [ignore_checksum |-> FALSE],
                                        files, order)} :
                /\ again.exc = "none"
                /\ again.value.header = cache[call.mapping].header
                /\ again.value.selector = cache[call.mapping].selector
       /\ \A path \in DOMAIN files :
             OtherThanDigest(files[path]) = OtherThanDigest(before[path])


(***************************************************************************)
(* Claims about the validator and the three tiers.                         *)
(***************************************************************************)
\* The constructs the mapping language forbids.
Forbidden ==
    {"FunctionDef", "ClassDef", "Import", "ImportFrom", "For", "While", "If",
     "Attribute", "Subscript", "ListComp", "Yield", "Lambda", "AugAssign",
     "Print", "Exec"}

\* The text holds a forbidden construct: as a statement, as the value of a
\* section, as the callee of a section's call or as a value of a dict.
contains_forbidden(lines) ==
    \E i \in DOMAIN lines :
        \/ lines[i].kind = "stmt" /\ lines[i].node \in Forbidden
        \/ /\ lines[i].kind = "assign"
           /\ \/ lines[i].value.node \in Forbidden
              \/ /\ lines[i].value.node = "Call"
                 /\ lines[i].value.func.node \in Forbidden
        \/ lines[i].kind = "item" /\ lines[i].expr.node \in Forbidden

\* C15: a load of a mapping file that contains a forbidden construct
\* (definition, import, control flow, attribute access, subscripting,
\* comprehension, yield, lambda, augmented assignment, print, exec) fails
\* with FormatError.
C15_ForbiddenIsFormatError ==
    (/\ call.op = "get_cached_mapping"
     /\ contains_forbidden(files[locate_mapping(call.mapping)]))
    => result.exc = "FormatError"

\* mapping.<attr> = value, for a required header parameter of the mapping.
has_attr(mapping, attr, value) == getattr(mapping, attr) = Return(value)

\* Every child of the loaded mapping agrees with it: an instrument context
\* has the observatory of its pipeline and the instrument of its key, a
\* reference mapping the observatory and instrument of its instrument
\* context and the reftype of its key.
agrees(mapping) ==
    CASE mapping.cls = "PipelineContext" ->
            \A instrument \in DOMAIN mapping.selections :
                \E observatory \in {getattr(mapping, "observatory")} :
                    /\ observatory.exc = "none"
                    /\ has_attr(mapping.selections[instrument], "observatory",
                                observatory.value)
                    /\ has_attr(mapping.selections[instrument], "instrument",
                                PyStr(instrument))
      [] mapping.cls = "InstrumentContext" ->
            \A reftype \in DOMAIN mapping.selections :
                \E observatory \in {getattr(mapping, "observatory")},
                   instrument \in {getattr(mapping, "instrument")} :
                    /\ observatory.exc = "none" /\ instrument.exc = "none"
                    /\ has_attr(mapping.selections[reftype], "observatory",
                                observatory.value)
                    /\ has_attr(mapping.selections[reftype], "instrument",
                                instrument.value)
                    /\ has_attr(mapping.selections[reftype], "reftype",
                                PyStr(reftype))
      [] OTHER -> TRUE

\* The file of `name` gives the class `cls` and a dict selector, and one
\* of the children its selector names loads on its own, as the tier below,
\* with an observatory, instrument or reftype other than the one the
\* parent's header and the child's key give it.
child_of(cls) ==
    IF cls = "PipelineContext" THEN "InstrumentContext" ELSE "ReferenceMapping"
child_name(cls, value) ==
    IF cls = "PipelineContext" THEN value.s ELSE value.elts[2]
child_disagrees(cls, name, keys, order) ==
    /\ locate_mapping(name) \in DOMAIN files
    /\ \E parsed \in {parse_header_selector(files[locate_mapping(name)])} :
          /\ parsed.exc = "none"
          /\ is_dict(parsed.value.selector)
          /\ \E k \in DOMAIN parsed.value.selector.items :
                \E value \in {parsed.value.selector.items[k]} :
                   /\ value.type = (IF cls = "PipelineContext" THEN "str" ELSE "tuple")
                   /\ cls = "InstrumentContext" => Len(value.elts) = 2
                   /\ \E child \in {from_file(child_of(cls),
                                              Bare(child_name(cls, value)),
                                              keys, files, order)} :
                         /\ child.exc = "none"
                         /\ \/ /\ "observatory" \in DOMAIN parsed.value.header.items
                               /\ ~has_attr(child.value, "observatory",
                                      lower_if_str(parsed.value.header.items["observatory"]))
                            \/ /\ cls = "PipelineContext"
                               /\ ~has_attr(child.value, "instrument", PyStr(lower(k)))
                            \/ /\ cls = "InstrumentContext"
                               /\ "instrument" \in DOMAIN parsed.value.header.items
                               /\ ~has_attr(child.value, "instrument",
                                      lower_if_str(parsed.value.header.items["instrument"]))
                            \/ /\ cls = "InstrumentContext"
                               /\ ~has_attr(child.value, "reftype", PyStr(lower(k)))

tier_of(name) ==
    CASE extension(name) = ".pmap" -> "PipelineContext"
      [] extension(name) = ".imap" -> "InstrumentContext"
      [] OTHER -> "none"

\* C16: in every mapping a load returned or the cache holds, and in every
\* mapping under it, each child has its parent's observatory (and
\* instrument) and the instrument or reftype of its selector key; a load
\* of a context one of whose children disagrees fails and caches nothing.
C16_ChildrenAgree ==
    /\ \A name \in DOMAIN cache : \A mapping \in closure(cache[name]) : agrees(mapping)
    /\ (/\ call.op = "get_cached_mapping"
        /\ tier_of(call.mapping) # "none"
        /\ \E order \in KeyOrders :
              child_disagrees(tier_of(call.mapping), call.mapping, call.keys, order))
       => /\ result.exc # "none"
          /\ call.mapping \notin DOMAIN cache

\* The load of an instrument context failed on a reference mapping that
\* loads on its own and disagrees with the context, and the cache holds
\* only a mapping loaded before.
C16_Witness ==
    /\ call.op = "get_cached_mapping" /\ call.mapping = Bare("hst_acs.imap")
    /\ result.exc = "AssertionError"
    /\ \E order \in KeyOrders :
          child_disagrees("InstrumentContext", call.mapping, call.keys, order)
    /\ ReferenceMapping_from_file(Bare("hst_acs_biasfile.rmap"), call.keys, files).exc
          = "none"
    /\ DOMAIN cache = {Bare("hst_acs_darkfile.rmap")}

\* The keys of the header dict of a text that passes the validator.
header_keys(lines) ==
    UNION {{item_key(section.items[i]) : i \in DOMAIN section.items} :
              section \in {b \in Range(body_from(lines, 1)) :
                              b.target.id = "header" /\ b.value.node = "Dict"}}

\* The class load_mapping chooses by the extension of the name.
class_of(name) ==
    CASE extension(name) = ".pmap" -> "PipelineContext"
      [] extension(name) = ".imap" -> "InstrumentContext"
      [] extension(name) = ".rmap" -> "ReferenceMapping"
      [] OTHER -> "Mapping"

\* C17: a load of a pipeline, instrument or reference mapping file that
\* passes the validator and whose header lacks a key its tier requires
\* fails with MissingHeaderKeyError naming a missing key.
C17_MissingKeyNamed ==
    (/\ call.op = "get_cached_mapping"
     /\ class_of(call.mapping) # "Mapping")
    => \A lines \in {files[locate_mapping(call.mapping)]} :
          compile_and_check(lines) = "none"
          => \A missing \in {Range(required_attrs(class_of(call.mapping)))
                                \ header_keys(lines)} :
                missing # {}
                => /\ result.exc = "MissingHeaderKeyError"
                   /\ result.value \in missing

\* The 'mapping' value of the tier of a class.
tier_name(cls) ==
    CASE cls = "PipelineContext" -> "pipeline"
      [] cls = "InstrumentContext" -> "instrument"
      [] cls = "ReferenceMapping" -> "reference"

\* C18: every mapping the cache holds, and every mapping under it, has
\* the 'mapping' attribute of its tier: 'pipeline' for a PipelineContext,
\* 'instrument' for an InstrumentContext, 'reference' for a
\* ReferenceMapping.
C18_TierOfHeader ==
    \A name \in DOMAIN cache :
        \A mapping \in closure(cache[name]) :
            has_attr(mapping, "mapping", PyStr(tier_name(mapping.cls)))

\* The basenames of the file `filename`, read as a mapping of class cls,
\* and of the files its selector names, and so on down the tiers.
RECURSIVE reachable(_, _)
reachable(cls, filename) ==
    IF cls = "ReferenceMapping" THEN {basename(filename)}
    ELSE {basename(filename)}
            \cup UNION {UNION {reachable(child_of(cls),
                                         Bare(child_name(cls, parsed.value.selector.items[k]))) :
                                  k \in DOMAIN parsed.value.selector.items} :
                           parsed \in {parse_header_selector(files[locate_mapping(filename)])}}

\* C19: mapping_names() of a loaded mapping returns exactly the basenames
\* of its own file and of every file reachable from it through the
\* selectors of the pipeline and instrument contexts.
C19_NamesAreClosure ==
    call.op = "mapping_names"
    => result = Return(reachable(cache[call.mapping].cls, call.mapping))

\* mapping_names() of a pipeline context returned four names.
C19_Witness ==
    /\ call.op = "mapping_names"
    /\ call.mapping = Bare("hst.pmap")
    /\ result = Return({"hst.pmap", "hst_acs.imap", "hst_acs_biasfile.rmap",
                        "hst_acs_darkfile.rmap"})

\* The files the selector of the file `filename`, read as a context of
\* class cls, names as its children.
children(cls, filename) ==
    IF locate_mapping(filename) \notin DOMAIN files THEN {}
    ELSE UNION {IF parsed.exc # "none" \/ ~is_dict(parsed.value.selector) THEN {}
                ELSE {child_name(cls, value) :
                         value \in {v \in Range(parsed.value.selector.items) :
                                       IF cls = "PipelineContext" THEN v.type = "str"
                                       ELSE v.type = "tuple" /\ Len(v.elts) = 2}} :
                   parsed \in {parse_header_selector(files[locate_mapping(filename)])}}

\* The load of `filename` as cls, with the files of `loading` being
\* loaded, comes to a file that is being loaded.
RECURSIVE re_enters(_, _, _)
re_enters(cls, filename, loading) ==
    /\ cls # "ReferenceMapping"
    /\ \E child \in children(cls, filename) :
          \/ child \in loading \cup {basename(filename)}
          \/ re_enters(child_of(cls), Bare(child), loading \cup {basename(filename)})

\* C20: a load of a context whose closure names a file that is being
\* loaded (the file itself, or a file above it) fails with FormatError.
C20_CycleRejected ==
    (/\ call.op = "get_cached_mapping"
     /\ tier_of(call.mapping) # "none"
     /\ re_enters(tier_of(call.mapping), call.mapping, {}))
    => result.exc = "FormatError"


(***************************************************************************)
(* Claims about the keys of a Match selector.                              *)
(***************************************************************************)
\* The selector built from the same parameters and header, every plain str
\* key K written as the 1-tuple (K,).
WrittenAsTuples(m) ==
    MatchingSelector(ParametersOf(m),
                     fix_simple_keys(m.parameters, m.selections),
                     RmapHeaderOf(m))

\* The plain str keys, other than "*", of the selector.
PlainKeys == {k \in DOMAIN selector.selections : k.simple /\ k.str # "*"}

\* C21: with exactly one parameter, choose on a selector with plain str
\* keys gives what it gives with the keys written as 1-tuples, and a header
\* whose value for the parameter equals a plain key K passes validation and
\* selects the case of K.
C21_SimpleKeyAsTuple ==
    (pc = "done" /\ Len(selector.parameters) = 1 /\ PlainKeys # {})
    => /\ result = MatchingSelector_choose(WrittenAsTuples(selector), header)
       /\ \A k \in PlainKeys :
             Binding(selector.parameters[1]) = k.str
             => result = Return(selector.selections[k].value)


(***************************************************************************)
(* Match selectors with inequality keys.                                   *)
(***************************************************************************)
\* Two parameters; the fields of foo are inequalities, "*" or a literal.
InequalityKeys ==
    {Key2(a, b) : a \in {">1.0", ">=2.0", "<2.0", "<=1.0", "*", "2.0"},
                  b \in {"*", "2.0"}}
InequalitySelectors ==
    {MatchingSelector(p, d, EmptyDict) :
        p \in FooBar, d \in SelectionDicts(InequalityKeys, {"file"})}

InitInequality ==
    /\ selector \in InequalitySelectors
    /\ header = NoHeader
    /\ pc = "idle"
    /\ candidates = <<>>
    /\ remaining = EmptyDict
    /\ idx = 0
    /\ tried = <<>>
    /\ result = NoResult
    /\ before = NoBefore
    /\ refs = EmptyDict
    /\ files = EmptyDict
    /\ cache = EmptyDict
    /\ threads = EmptyDict
    /\ call = NoCall

SpecInequality == InitInequality /\ [][NextMatch]_vars

\* Field i of the key is an inequality; the header's value satisfies it.
InequalityAt(k, i) ==
    ~k.fields[i].tuple /\ startswith_inequality(k.fields[i].str)
Satisfied(k, i) ==
    \E parts \in {inequality_parts[k.fields[i].str]},
       number \in {float(Binding(selector.parameters[i]))} :
        /\ number.exc = "none"
        /\ compare(parts.operator, number.value, parts.value) = 1

\* The match status of field i, a satisfied inequality being an exact match.
StatusWithInequality(k, i) ==
    IF InequalityAt(k, i) THEN (IF Satisfied(k, i) THEN 1 ELSE -1)
    ELSE StatusAt(k, i)

\* Every required parameter other than the one at i carries a value that
\* the keys hold in its position, or the keys hold "*" there.
OthersValid(i) ==
    \A j \in RequiredPresent \ {i} :
        \/ header[selector.parameters[j]] \in MatchedValues(j)
        \/ "*" \in MatchedValues(j)

\* C22: for a case whose field on a required parameter is an inequality, a
\* header value that satisfies it is not rejected by validate_query and
\* counts as an exact match of the case; a value that does not satisfy it
\* drops the case.
C22_InequalityAsExact ==
    (pc # "idle" /\ RequiredMissing = {})
    => \A k \in MatchedKeys : \A i \in Positions :
          (RequiredAt(i) /\ InequalityAt(k, i))
          => /\ (Satisfied(k, i) /\ OthersValid(i))
                => /\ Passed
                   /\ (\A j \in Positions :
                          RequiredAt(j) => StatusWithInequality(k, j) # -1)
                      => \E c \in DOMAIN candidates :
                            /\ k \in candidates[c].group
                            /\ candidates[c].weight =
                                  0 - Cardinality({j \in Positions :
                                         /\ selector.parameters[j] \in DOMAIN header
                                         /\ StatusWithInequality(k, j) = 1})
             /\ (~Satisfied(k, i) /\ Passed) => k \notin DOMAIN remaining


(***************************************************************************)
(* LinearInterpolationSelector (selectors.py 950-1004).  The keys and the  *)
(* header value are numbers; a number of the model is an integer.          *)
(* choose scans the sorted selections one comparison at a time             *)
(* (interpolation_scan) and then builds the pair.                          *)
(***************************************************************************)
MaxWavelength == 5

\* LinearInterpolationSelector.__init__ -> Selector.__init__.
LinearInterpolationSelector(keyname, selections) ==
    [cls |-> "LinearInterpolationSelector",
     parameters |-> <<keyname>>,
     selections |-> sorted_items(selections)]

\* Fault variant of interpolation_pair: an exact hit brackets like any
\* other value.
interpolation_pair_strict(self, keyval, index, hdr) ==
    IF index = Len(self.selections)
    THEN IF index = 0 THEN Raise("IndexError")
         ELSE The({IF choice.exc # "none" THEN choice
                   ELSE Return(<<choice.value, choice.value>>) :
                      choice \in {get_choice(self.selections[index], hdr)}})
    ELSE IF index = 0
    THEN The({IF choice.exc # "none" THEN choice
              ELSE Return(<<choice.value, choice.value>>) :
                 choice \in {get_choice(self.selections[index + 1], hdr)}})
    ELSE The({IF choice1.exc # "none" THEN choice1
              ELSE IF choice2.exc # "none" THEN choice2
              ELSE Return(<<choice1.value, choice2.value>>) :
                 choice1 \in {get_choice(self.selections[index], hdr)},
                 choice2 \in {get_choice(self.selections[index + 1], hdr)}})

\* The statements of LinearInterpolationSelector.choose after the loop,
\* index counting the selections the loop went past (the 0-based index of
\* the code): the pair returned, or the exception.  With no selections
\* self._selections[index-1] raises IndexError.
interpolation_pair(self, keyval, index, hdr) ==
    IF index = Len(self.selections)
    THEN IF index = 0 THEN Raise("IndexError")
         ELSE The({IF choice.exc # "none" THEN choice
                   ELSE Return(<<choice.value, choice.value>>) :
                      choice \in {get_choice(self.selections[index], hdr)}})
    ELSE IF index = 0 \/ keyval = self.selections[index + 1].key
    THEN The({IF choice.exc # "none" THEN choice
              ELSE Return(<<choice.value, choice.value>>) :
                 choice \in {get_choice(self.selections[index + 1], hdr)}})
    ELSE The({IF choice1.exc # "none" THEN choice1
              ELSE IF choice2.exc # "none" THEN choice2
              ELSE Return(<<choice1.value, choice2.value>>) :
                 choice1 \in {get_choice(self.selections[index], hdr)},
                 choice2 \in {get_choice(self.selections[index + 1], hdr)}})

\* The condition of the while loop.
interpolation_continues(self, keyval, index) ==
    index < Len(self.selections) /\ keyval > self.selections[index + 1].key

Wavelengths == 0 .. MaxWavelength
WavelengthKeys == 1 .. (MaxWavelength - 1)
WavelengthDicts ==
    {[k \in K |-> File("cref_flatfield_" \o ToString(k) \o ".fits")] :
        K \in {K \in SUBSET WavelengthKeys : Cardinality(K) <= MaxKeys}}
LinearInterpolationSelectors ==
    {LinearInterpolationSelector("effective_wavelength", d) : d \in WavelengthDicts}
WavelengthHeaders ==
    {("effective_wavelength" :> w) : w \in Wavelengths} \cup {("sw_version" :> 1)}

InitInterpolation ==
    /\ selector \in LinearInterpolationSelectors
    /\ header = NoHeader
    /\ pc = "idle"
    /\ candidates = <<>>
    /\ remaining = EmptyDict
    /\ idx = 0
    /\ tried = <<>>
    /\ result = NoResult
    /\ before = NoBefore
    /\ refs = EmptyDict
    /\ files = EmptyDict
    /\ cache = EmptyDict
    /\ threads = EmptyDict
    /\ call = NoCall

\* keyval = header[self._parameters[0]]; index = 0
interpolation_begin ==
    /\ pc = "idle"
    /\ \E hdr \in WavelengthHeaders :
          /\ header' = hdr
          /\ IF selector.parameters[1] \notin DOMAIN hdr
             THEN result' = Raise("KeyError") /\ pc' = "done"
             ELSE result' = NoResult /\ pc' = "scan"
    /\ idx' = 0
    /\ UNCHANGED <<selector, candidates, remaining, tried, before>>
    /\ UNCHANGED <<refs, files, cache, threads, call>>

\* One test of the while condition: index += 1, or the rest of choose.
interpolation_scan ==
    /\ pc = "scan"
    /\ \E keyval \in {header[selector.parameters[1]]} :
          IF interpolation_continues(selector, keyval, idx)
          THEN /\ idx' = idx + 1
               /\ UNCHANGED <<result, pc>>
          ELSE /\ result' = interpolation_pair(selector, keyval, idx, header)
               /\ pc' = "done"
               /\ UNCHANGED idx
    /\ UNCHANGED <<selector, header, candidates, remaining, tried, before>>
    /\ UNCHANGED <<refs, files, cache, threads, call>>

NextInterpolation == interpolation_begin \/ interpolation_scan
SpecInterpolation == InitInterpolation /\ [][NextInterpolation]_vars

\* The keys of the selector under test and the choice of a key.
NumericKeys == {selector.selections[i].key : i \in DOMAIN selector.selections}
ChoiceAt(k) ==
    (CHOOSE sel \in Range(selector.selections) : sel.key = k).choice.value
Least(K) == CHOOSE k \in K : \A j \in K : k <= j

\* choose returned for a header that holds the parameter, the selector
\* having keys.
Interpolated ==
    /\ pc = "done"
    /\ selector.parameters[1] \in DOMAIN header
    /\ NumericKeys # {}

PyFloat(n) == [type |-> "float", n |-> n]

\* float(header[...]) of a float or of a str: Return(x) or the exception.
float_of(value) ==
    IF value.type = "float" THEN Return(value.n) ELSE float(value.s)

\* A number as an element of an array of dtype 'f': single precision has
\* 24 bits of mantissa, so that an integer up to 2^24 is kept and one
\* between 2^24 and 2^25 is rounded to the nearest even integer, a tie
\* going to the multiple of 4.
single(x) ==
    IF x <= 2^24 THEN x
    ELSE IF x % 2 = 0 THEN x
    ELSE IF (x + 1) % 4 = 0 THEN x + 1 ELSE x - 1

abs(x) == IF x < 0 THEN 0 - x ELSE x

\* np.abs(nkeys - keyval) of one key: the difference in single precision.
single_diff(key, keyval) == single(abs(single(key) - single(keyval)))

\* np.argmin(diff): the first index of the least difference.
argmin(diff) ==
    CHOOSE i \in DOMAIN diff :
        /\ \A j \in DOMAIN diff : diff[i] <= diff[j]
        /\ \A j \in DOMAIN diff : j < i => diff[j] > diff[i]

ClosestGeometricRatioSelector(keyname, selections) ==
    [cls |-> "ClosestGeometricRatioSelector",
     parameters |-> <<keyname>>,
     selections |-> sorted_items(selections)]

\* ClosestGeometricRatioSelector.choose; np.argmin of an empty array raises
\* ValueError.
ClosestGeometricRatioSelector_choose(self, hdr) ==
    IF self.parameters[1] \notin DOMAIN hdr THEN Raise("KeyError")
    ELSE The({IF keyval.exc # "none" THEN keyval
              ELSE IF self.selections = <<>> THEN Raise("ValueError")
              ELSE get_choice(
                       self.selections[
                           argmin([i \in DOMAIN self.selections |->
                                      single_diff(self.selections[i].key, keyval.value)])],
                       hdr) :
                 keyval \in {float_of(hdr[self.parameters[1]])}})

\* Keys and queries: small numbers, and numbers next to 2^24.
RatioKeys == (1 .. (MaxWavelength - 1)) \cup {2^24, 2^24 + 1, 2^24 + 2}
RatioSelectors ==
    {ClosestGeometricRatioSelector("effective_wavelength",
         [k \in K |-> File("cref_flatfield_" \o ToString(k) \o ".fits")]) :
        K \in {K \in SUBSET RatioKeys : Cardinality(K) <= MaxKeys}}
RatioHeaders ==
    {("effective_wavelength" :> PyFloat(w)) :
        w \in Wavelengths \cup {2^24, 2^24 + 1, 2^24 + 2, 2^24 + 3}}
    \cup {("effective_wavelength" :> PyStr(s)) : s \in {"2.0", "3.0", "NOT PRESENT"}}
    \cup {("sw_version" :> PyFloat(1))}

InitRatio ==
    /\ selector \in RatioSelectors
    /\ header = NoHeader
    /\ pc = "idle"
    /\ candidates = <<>>
    /\ remaining = EmptyDict
    /\ idx = 0
    /\ tried = <<>>
    /\ result = NoResult
    /\ before = NoBefore
    /\ refs = EmptyDict
    /\ files = EmptyDict
    /\ cache = EmptyDict
    /\ threads = EmptyDict
    /\ call = NoCall

\* One call of choose.
ratio_choose ==
    /\ pc = "idle"
    /\ \E hdr \in RatioHeaders :
          /\ header' = hdr
          /\ result' = ClosestGeometricRatioSelector_choose(selector, hdr)
    /\ pc' = "done"
    /\ UNCHANGED <<selector, candidates, remaining, idx, tried, before>>
    /\ UNCHANGED <<refs, files, cache, threads, call>>

NextRatio == ratio_choose
SpecRatio == InitRatio /\ [][NextRatio]_vars

\* C24: ClosestGeometricRatioSelector.choose returns the selection of the
\* key that minimizes |query - key|, of the smaller key when two keys are
\* equally distant.
C24_ClosestKey ==
    (/\ pc = "done"
     /\ selector.parameters[1] \in DOMAIN header
     /\ NumericKeys # {})
    => \A query \in {float_of(header[selector.parameters[1]])} :
          query.exc = "none"
          => result = Return(ChoiceAt(Least(
                 {k \in NumericKeys :
                     \A j \in NumericKeys :
                         abs(query.value - k) <= abs(query.value - j)})))


(***************************************************************************)
(* rmap.get_best_references (rmap.py 866-872): the context is fetched      *)
(* through the mapping cache, then asked for the best references.          *)
(***************************************************************************)
\* InstrumentContext.get_best_references: one entry per reftype of the
\* selections.  The entries do not depend on the order of the loop.
RECURSIVE best_references_from(_, _, _, _)
best_references_from(ictx, todo, hdr, refs_so_far) ==
    IF todo = {} THEN refs_so_far
    ELSE LET reftype == CHOOSE r \in todo : TRUE
         IN best_references_from(ictx, todo \ {reftype}, hdr,
                record_best_ref(ictx, reftype, hdr, refs_so_far))

InstrumentContext_get_best_references(ictx, hdr) ==
    Return(best_references_from(ictx, DOMAIN ictx.selections, hdr, EmptyDict))

\* PipelineContext.get_best_references: header = dict(header), then the
\* instrument context of header["INSTRUME"].lower() answers.
PipelineContext_get_best_references(ctx, hdr) ==
    The({IF ictx.exc # "none" THEN ictx
         ELSE InstrumentContext_get_best_references(ictx.value, hdr) :
            ictx \in {dispatch(ctx, hdr)}})

\* ctx.get_best_references(header) on a loaded mapping; a reference mapping
\* has no such method and Mapping.__getattr__ raises AttributeError.
Mapping_get_best_references(ctx, hdr) ==
    CASE ctx.cls = "PipelineContext" -> PipelineContext_get_best_references(ctx, hdr)
      [] ctx.cls = "InstrumentContext" -> InstrumentContext_get_best_references(ctx, hdr)
      [] OTHER -> Raise("AttributeError")

\* rmap.get_best_references(context_file, header) with CACHED_MAPPINGS =
\* cached: the cache after the call and its outcome.  The context is fetched
\* without keys, so that ignore_checksum has its default.
get_best_references(context_file, hdr, cached, fs, order) ==
    The({IF got.result.exc # "none" THEN got
         ELSE [cache |-> got.cache,
               result |-> Mapping_get_best_references(got.result.value, hdr)] :
            got \in {get_cached_mapping(context_file, [ignore_checksum |-> FALSE],
                                         cached, fs, order)}})

\* The contexts and headers of the queries.
QueryContexts == {"hst.pmap", "hst_acs.imap"}
QueryHeaders ==
    {("INSTRUME" :> "ACS") @@ ("foo" :> "1.0"),
     ("INSTRUME" :> "ACS") @@ ("foo" :> "2.0"),
     ("foo" :> "1.0")}

\* File systems whose loads do not depend on the order of a dict: the valid
\* files, and one file whose checksum is stale.
QueryStores ==
    {ValidStore,
     Store({Defect("hst.pmap", Replace(2, Item("observatory", StrNode("hst"), " # edited")), TRUE)}),
     Store({Defect("hst_acs_biasfile.rmap", Replace(5, Item("reftype", StrNode("biasfile"), " # edited")), TRUE)})}

InitQueries ==
    /\ files \in QueryStores
    /\ cache = EmptyDict
    /\ before = EmptyDict
    /\ call = NoCall
    /\ result = NoResult
    /\ header = NoHeader
    /\ pc = "idle"
    /\ selector = NoHeader
    /\ candidates = <<>> /\ remaining = <<>> /\ idx = 0 /\ tried = <<>>
    /\ refs = EmptyDict /\ threads = EmptyDict

\* One call rmap.get_best_references(context_file, header).  `header` is the
\* caller's dict after the call, `before` the result of the first query of
\* each context and header.
best_references_call ==
    \E base \in QueryContexts, hdr \in QueryHeaders, order \in KeyOrders :
        \E got \in {get_best_references(Bare(base), hdr, cache, files, order)} :
           /\ cache' = got.cache
           /\ result' = got.result
           /\ header' = hdr
           /\ call' = [op |-> "get_best_references", mapping |-> Bare(base),
                       header |-> hdr]
           /\ before' = IF <<base, hdr>> \in DOMAIN before THEN before
                        ELSE (<<base, hdr>> :> got.result) @@ before
           /\ UNCHANGED <<selector, pc, candidates, remaining, idx, tried,
                          refs, files, threads>>

\* One call get_cached_mapping(context_file, **keys) between the queries.
context_load_call ==
    \E base \in QueryContexts, keys \in LoadKeys, order \in KeyOrders :
        \E got \in {get_cached_mapping(Bare(base), keys, cache, files, order)} :
           /\ cache' = got.cache
           /\ result' = got.result
           /\ call' = [op |-> "get_cached_mapping", mapping |-> Bare(base),
                       keys |-> keys]
           /\ UNCHANGED <<selector, header, pc, candidates, remaining, idx,
                          tried, before, refs, files, threads>>

NextQueries == context_load_call \/ best_references_call
SpecQueries == InitQueries /\ [][NextQueries]_vars

\* The call that ends in this state is a query.
IsQuery == call.op = "get_best_references"

\* A query leaves the mappings of the cache and the caller's header as they
\* were.
QueryIsPure ==
    [][call'.op = "get_best_references"
          => /\ \A name \in DOMAIN cache :
                   name \in DOMAIN cache' /\ cache'[name] = cache[name]
             /\ header' = call'.header]_vars

\* C25: for every context and header, after any sequence of earlier loads
\* and queries, get_best_references returns the same result as the first
\* such query, and a query leaves the cached mappings, their selector trees
\* and the caller's header unchanged.
C25_QueriesRepeat ==
    /\ [](IsQuery => result = before[<<call.mapping.base, call.header>>])
    /\ QueryIsPure


(***************************************************************************)
(* The weights of _winnow (selectors.py 651-677).                          *)
(***************************************************************************)
\* Minus the sum of the match statuses of the parameters from i on.
RECURSIVE MinusStatuses(_, _)
MinusStatuses(k, i) ==
    IF i > Len(selector.parameters) THEN 0
    ELSE MinusStatuses(k, i + 1) - StatusAt(k, i)

\* C26 as stated: in the winnow phase every case starts at weight 0; a case
\* whose matcher answers -1 on a required parameter is dropped, and in every
\* other situation, a -1 on an optional parameter included, the weight of
\* the case is changed by minus the match status, so that a surviving case
\* is ranked with minus the sum of its statuses.
C26_WeightIsMinusStatus ==
    pc = "yield" =>
        /\ DOMAIN remaining = {k \in MatchedKeys : Survives(k)}
        /\ \A i \in DOMAIN candidates :
              \A k \in candidates[i].group :
                  candidates[i].weight = MinusStatuses(k, 1)

\* C26: in the winnow phase every case starts at weight 0; a case whose
\* matcher answers -1 is dropped when the parameter is required and keeps
\* its weight when the parameter is optional; a status of 1 or 0 changes the
\* weight by minus the status, so that a surviving case is ranked with minus
\* the number of its exact matches.
C26_WeightIsMinusMatches ==
    pc = "yield" =>
        /\ DOMAIN remaining = {k \in MatchedKeys : Survives(k)}
        /\ \A i \in DOMAIN candidates :
              \A k \in candidates[i].group :
                  candidates[i].weight = 0 - ExactMatches(k)

\* A case survives with a mismatch on an optional parameter and an exact
\* match on another parameter.
C26_Witness ==
    /\ pc = "yield"
    /\ \E k \in DOMAIN remaining :
          \E i \in Positions, j \in Positions :
              /\ StatusAt(k, i) = -1 /\ ~RequiredAt(i)
              /\ StatusAt(k, j) = 1
              /\ k \in candidates[1].group


(***************************************************************************)
(* Substitutions (selectors.py 564-583).                                   *)
(***************************************************************************)
\* Field i of the key k, as written in the mapping, is a `from` of the
\* substitutions of its parkey.
IsFrom(k, i) ==
    /\ ~k.simple
    /\ selector.parameters[i] \in DOMAIN selector.substitutions
    /\ k.fields[i] \in DOMAIN selector.substitutions[selector.parameters[i]]
ToOf(k, i) == selector.substitutions[selector.parameters[i]][k.fields[i]]
RewrittenKey(k) ==
    substitute_key(selector.parameters, selector.substitutions, k)

\* C27: with substitutions {parkey: {from: to}} the selector behaves as if
\* every case field equal to `from` under that parkey had been written as
\* `to`: a header whose value for the parkey equals `to` passes the
\* validation of the query and matches the rewritten case, and the matcher
\* of that case no longer matches `from`.
C27_SubstitutedAsWritten ==
    pc # "idle" =>
        \A k \in DOMAIN selector.selections : \A i \in Positions :
            (IsFrom(k, i) /\ ~ToOf(k, i).tuple /\ ~k.fields[i].tuple)
            => /\ RewrittenKey(k) \in MatchedKeys
               /\ (/\ Binding(selector.parameters[i]) = ToOf(k, i).str
                   /\ RequiredMissing = {}
                   /\ OthersValid(i))
                  => /\ Passed
                     /\ StatusAt(RewrittenKey(k), i) = 1
               /\ ToOf(k, i) # k.fields[i]
                  => match(selector.match_selections[RewrittenKey(k)].matchers[i],
                           k.fields[i].str) = -1


(***************************************************************************)
(* The order of a load (rmap.py 219-227): the class is constructed, which  *)
(* loads the mappings the file names, before _validate_file_load runs.     *)
(***************************************************************************)
\* Contexts edited after their checksum was written.
StaleContexts ==
    {Defect("hst.pmap", Replace(2, Item("observatory", StrNode("hst"), " # edited")), TRUE),
     Defect("hst_acs.imap", Replace(2, Item("observatory", StrNode("hst"), " # edited")), TRUE)}

\* The file system without the file `base`.
Without(fs, base) ==
    [path \in DOMAIN fs \ {Path(MappingsDir, base)} |-> fs[path]]

\* File systems with one stale context over reference mappings that are
\* valid, defective or absent.
OrderStores ==
    {Store({stale} \cup ds) :
        stale \in StaleContexts,
        ds \in {{}} \cup {{d} : d \in {d \in Defects : d.base = "hst_acs_biasfile.rmap"}}}
    \cup {Without(Store({stale}), "hst_acs_biasfile.rmap") : stale \in StaleContexts}

InitOrder ==
    /\ files \in OrderStores
    /\ cache = EmptyDict
    /\ call = NoCall
    /\ result = NoResult
    /\ pc = "idle"
    /\ selector = NoHeader /\ header = NoHeader
    /\ candidates = <<>> /\ remaining = <<>> /\ idx = 0 /\ tried = <<>>
    /\ before = NoHeader /\ refs = EmptyDict /\ threads = EmptyDict

SpecOrder == InitOrder /\ [][NextLoad]_vars

\* The file parses and its sha1sum is not the checksum of its text.
WrongChecksum(name) ==
    Mapping_from_file(name, [ignore_checksum |-> FALSE], files).exc = "ChecksumError"

\* C28: during a load the checksum of a mapping is computed and compared
\* with its sha1sum before any mapping it references is loaded: the load of
\* a pipeline or instrument file with a wrong checksum fails with
\* ChecksumError, whatever its child files hold.
C28_ChecksumBeforeChildren ==
    (/\ call.op = "get_cached_mapping"
     /\ ~call.keys.ignore_checksum
     /\ extension(call.mapping) \in {".pmap", ".imap"}
     /\ call.mapping \notin DOMAIN cache
     /\ WrongChecksum(call.mapping))
    => result.exc = "ChecksumError"


(***************************************************************************)
(* MatchingSelector.choose over nested selectors of every class            *)
(* (selectors.py 603-626).                                                 *)
(***************************************************************************)
\* The choice of the case with key k: a reference file, a nested UseAfter,
\* a nested VersionDep whose only relation is "< 1", or a nested Match on a
\* required baz whose two cases both hold "1.0".
NestedChoiceOf(k, kind) ==
    CASE kind = "file" -> File(KeyName(k) \o ".fits")
      [] kind = "useafter" -> ChoiceOf(k, "early")
      [] kind = "versiondep" ->
            VersionDepSelector(
                RelationStr("<", PyInt(1)) :> File(KeyName(k) \o "_old.fits"))
      [] kind = "match" ->
            MatchingSelector(<<Par(FALSE, "baz")>>,
                (TupleKey(<<Lit("1.0")>>) :> File(KeyName(k) \o "_1.fits"))
                    @@ (TupleKey(<<Tup(<<"1.0", "3.0">>)>>)
                            :> File(KeyName(k) \o "_13.fits")),
                EmptyDict)

NestedKinds == {"file", "useafter", "versiondep", "match"}
OuterKeys ==
    {TupleKey(<<Lit("1.0")>>), TupleKey(<<Tup(<<"1.0", "2.0">>)>>),
     TupleKey(<<Lit("*")>>)}
NestedSelectors ==
    {MatchingSelector(p, [k \in K |-> NestedChoiceOf(k, g[k])], EmptyDict) :
        p \in FooOnly,
        K \in SUBSET OuterKeys \ {{}},
        g \in [OuterKeys -> NestedKinds]}

\* Headers: foo and baz absent or a value, the observation date and time or
\* the date alone or neither, sw_version absent or a number.
NestedHeaders ==
    {f @@ b @@ o @@ v :
        f \in {EmptyDict, "foo" :> "1.0", "foo" :> "2.0"},
        b \in {EmptyDict, "baz" :> "1.0", "baz" :> "2.0", "baz" :> "3.0"},
        o \in {EmptyDict, "DATE-OBS" :> 1, ObsHeader},
        v \in {EmptyDict, versionvar :> PyInt(0), versionvar :> PyInt(2)}}

InitNested ==
    /\ selector \in NestedSelectors
    /\ header = NoHeader
    /\ pc = "idle"
    /\ candidates = <<>>
    /\ remaining = EmptyDict
    /\ idx = 0
    /\ tried = <<>>
    /\ result = NoResult
    /\ before = NoBefore
    /\ refs = EmptyDict
    /\ files = EmptyDict
    /\ cache = EmptyDict
    /\ threads = EmptyDict
    /\ call = NoCall

\* choose(header) up to the first candidate, as choose_begin, for a header
\* of NestedHeaders.
nested_begin ==
    /\ pc = "idle"
    /\ \E hdr \in NestedHeaders :
          LET error == validate_query(selector, hdr)
              w == winnow(selector, hdr, selector.match_selections)
          IN /\ header' = hdr
             /\ tried' = <<>>
             /\ IF error # "none" \/ w.exc # "none"
                THEN /\ result' = Raise(IF error # "none" THEN error ELSE w.exc)
                     /\ pc' = "done"
                     /\ candidates' = <<>>
                     /\ remaining' = EmptyDict
                     /\ idx' = 0
                ELSE /\ result' = NoResult
                     /\ pc' = "yield"
                     /\ candidates' = rank_candidates(w.weights, w.remaining)
                     /\ remaining' = w.remaining
                     /\ idx' = 1
    /\ UNCHANGED <<selector, before>>
    /\ UNCHANGED <<refs, files, cache, threads, call>>

NextNested == nested_begin \/ choose_next
SpecNested == InitNested /\ [][NextNested]_vars

\* C29: MatchingSelector.choose never propagates a LookupError-family
\* exception of a nested selector: a nested UseAfter's KeyError for a missing
\* DATE-OBS or TIME-OBS, a nested VersionDep's IndexError and a nested
\* Match's MissingParameterError, BadValueError or AmbiguousMatchError make
\* the candidate fail, and choose goes on to a weaker group or raises
\* MatchingError; AmbiguousMatchError is raised for its own groups only.
C29_NestedLookupErrorsCaught ==
    pc = "done" =>
        /\ \A i \in DOMAIN tried :
              Fails(i) => (i < Len(tried) \/ result = Raise("MatchingError"))
        /\ result.exc \notin {"KeyError", "IndexError", "UseAfterError"}
        /\ result.exc \in {"MissingParameterError", "BadValueError"} => tried = <<>>
        /\ result.exc = "AmbiguousMatchError" =>
              tried # <<>> /\ ~Single(Len(tried))

\* The nested UseAfter of the best group failed with KeyError and a weaker
\* group gave the result.
C29_Witness ==
    /\ pc = "done" /\ result.exc = "none"
    /\ Len(tried) = 2
    /\ tried[1].outcome = Raise("KeyError")
    /\ selector.match_selections[CHOOSE k \in candidates[1].group : TRUE].choice.cls
          = "UseAfterSelector"


(***************************************************************************)
(* The cache and the checksum bypass (rmap.py 744-756).                    *)
(***************************************************************************)
\* The checksum of the mapping and of every mapping under it matches its
\* file.
Verified(mapping) == \A m \in closure(mapping) : ChecksumMatches(m)

\* C30: every mapping returned by get_cached_mapping, or used by
\* get_best_references, in a call that does not request the checksum bypass
\* has had its checksum and that of all its descendants verified, whatever
\* calls with or without ignore_checksum were made for the basename before.
C30_VerifiedUnlessBypassed ==
    /\ (/\ call.op = "get_cached_mapping"
        /\ ~call.keys.ignore_checksum
        /\ result.exc = "none")
       => Verified(result.value)
    /\ (IsQuery /\ call.mapping \in DOMAIN cache) => Verified(cache[call.mapping])

====
